---------------------------- MODULE Spec2Model ----------------------------
(***************************************************************************)
(* PlanForge layout engine: archetype generators, CP-SAT solver runs,      *)
(* compliance and Vastu checks, scorer and the generate orchestrator.      *)
(*                                                                         *)
(* Lengths are integers.  Room coordinates (the values _r rounds to three  *)
(* decimals of a metre) are millimetres.  Intermediate lengths inside a    *)
(* generator are kept in units of 1/600 mm ("u"), which represents the     *)
(* fractions 0.55, 0.35, 0.38, 1/2, 1/3 ... of a millimetre value exactly. *)
(* Areas (round(w * d, 2)) are in units of 0.01 sqm.  Scores are in units  *)
(* of 0.001 point before the final round(.., 1), tenths after it.          *)
(***************************************************************************)
EXTENDS Integers, Sequences, FiniteSets, TLC

(***************************************************************************)
(* Arithmetic helpers                                                      *)
(***************************************************************************)
Max(a, b) == IF a >= b THEN a ELSE b
Min(a, b) == IF a <= b THEN a ELSE b
Abs(a) == IF a >= 0 THEN a ELSE 0 - a

\* Python round(): nearest, ties to even (n / q, q > 0).
RoundDiv(n, q) ==
    LET f == n \div q
        r == n % q
    IN  IF 2 * r > q THEN f + 1
        ELSE IF 2 * r < q THEN f
        ELSE IF f % 2 = 0 THEN f ELSE f + 1

\* millimetres -> u, and the fraction p/q of a length in u
ToU(mm) == mm * 600
Frac(v, p, q) == (v * p) \div q

\* area_mm2 / x, x a length in u, result a length in u (staged long division)
DivU(area_mm2, x) ==
    LET q0 == area_mm2 \div x
        r0 == area_mm2 % x
        q1 == (r0 * 600) \div x
        r1 == (r0 * 600) % x
        q2 == (r1 * 600) \div x
    IN  q0 * 360000 + q1 * 600 + q2

\* Room.area : round(width * depth, 2), in 0.01 sqm
Area(room) == RoundDiv(room.w * room.d, 10000)

SeqToSet(s) == {s[i] : i \in 1..Len(s)}

(***************************************************************************)
(* Rule tables (config/compliance_rules.json)                              *)
(***************************************************************************)
EWT == 230
IWT == 115
MinPlotLength == 5000
MinPlotWidth == 5000
MinBedroomArea == 950
MinKitchenArea == 450
MinToiletArea == 280
MinBedroomWidth == 2400
MinKitchenWidth == 1800
MinToiletWidth == 1200
MinStairWidth == 900
MaxBeamSpan == 5000
MaxFloorCoveragePct == 70
Tol == 5

(***************************************************************************)
(* Archetype constants (archetypes.py)                                     *)
(***************************************************************************)
STAIR_W == 900
STAIR_D == 3000
PARK_W == 2750
POOJA_W == 1500
STUDY_W == 2500
BAL_D == 1200

(***************************************************************************)
(* PlotConfig inputs                                                       *)
(***************************************************************************)
MaxSite == 8
MaxVastuSite == 0
MaxBedrooms == 4
MaxToilets == 2
MaxAnswer == 2

\* Plot / setback combinations (mm): width, length, front = rear, left = right,
\* and the front and rear edge widths of a trapezoid plot (0 for a rectangle).
Site(i) ==
    CASE i = 0 -> [w |-> 12000, l |-> 15000, fr |-> 1500, lr |-> 1500, fw |-> 0, rw |-> 0]
      [] i = 1 -> [w |-> 9000,  l |-> 12000, fr |-> 1500, lr |-> 1000, fw |-> 0, rw |-> 0]
      [] i = 2 -> [w |-> 9000,  l |-> 9000,  fr |-> 1500, lr |-> 1000, fw |-> 0, rw |-> 0]
      [] i = 3 -> [w |-> 5000,  l |-> 5000,  fr |-> 0,    lr |-> 0,    fw |-> 0, rw |-> 0]
      [] i = 4 -> [w |-> 11000, l |-> 15000, fr |-> 1500, lr |-> 1500,
                   fw |-> 12000, rw |-> 12000]
      [] i = 5 -> [w |-> 12000, l |-> 15000, fr |-> 1500, lr |-> 1500,
                   fw |-> 12000, rw |-> 11000]
      [] i = 6 -> [w |-> 12000, l |-> 15000, fr |-> 500,  lr |-> 500,  fw |-> 0, rw |-> 0]
      [] i = 7 -> [w |-> 4000,  l |-> 12000, fr |-> 500,  lr |-> 500,  fw |-> 0, rw |-> 0]
      [] i = 8 -> [w |-> 9900,  l |-> 15000, fr |-> 1500, lr |-> 500,  fw |-> 0, rw |-> 0]
      [] OTHER -> [w |-> 9000 + 1000 * (i - 8), l |-> 12000 + 1000 * (i - 8),
                   fr |-> 1500, lr |-> 1000, fw |-> 0, rw |-> 0]

RoadSides == {"S", "N", "E", "W"}

MkConfig(i, nb, nt, pk, pj, st, bl, ve, rs) ==
    [plot_width |-> Site(i).w, plot_length |-> Site(i).l,
     setback_front |-> Site(i).fr, setback_rear |-> Site(i).fr,
     setback_left |-> Site(i).lr, setback_right |-> Site(i).lr,
     plot_shape |-> IF Site(i).fw > 0 THEN "trapezoid" ELSE "rectangular",
     plot_front_width |-> Site(i).fw,
     plot_rear_width |-> Site(i).rw,
     num_bedrooms |-> nb, toilets |-> nt, parking |-> pk,
     has_pooja |-> pj, has_study |-> st, has_balcony |-> bl,
     vastu_enabled |-> ve, road_side |-> rs,
     city |-> "other", road_width_m |-> 9000]

\* requests without Vastu on every site, with Vastu (any road side) on the first sites
Configs ==
    {MkConfig(i, nb, nt, pk, pj, st, bl, FALSE, "S") :
        i \in 0..MaxSite, nb \in 1..MaxBedrooms, nt \in 1..MaxToilets,
        pk \in BOOLEAN, pj \in BOOLEAN, st \in BOOLEAN, bl \in BOOLEAN}
    \cup
    {MkConfig(i, nb, nt, pk, pj, st, bl, TRUE, rs) :
        i \in 0..MaxVastuSite, nb \in 1..MaxBedrooms, nt \in 1..MaxToilets,
        pk \in BOOLEAN, pj \in BOOLEAN, st \in BOOLEAN, bl \in BOOLEAN,
        rs \in RoadSides}

(***************************************************************************)
(* Floor plate and room construction (archetypes.py)                       *)
(***************************************************************************)
_trapezoid_floor_plate(cfg) ==
    [ox |-> ToU(cfg.setback_left + EWT),
     oy |-> ToU(cfg.setback_front + EWT),
     width |-> ToU(Min(cfg.plot_front_width, cfg.plot_rear_width)
                   - cfg.setback_left - cfg.setback_right - 2 * EWT),
     depth |-> ToU(cfg.plot_length - cfg.setback_front - cfg.setback_rear - 2 * EWT)]

_floor_plate(cfg) ==
    IF cfg.plot_shape = "trapezoid" /\ cfg.plot_front_width > 0 /\ cfg.plot_rear_width > 0
    THEN _trapezoid_floor_plate(cfg)
    ELSE [ox |-> ToU(cfg.setback_left + EWT),
          oy |-> ToU(cfg.setback_front + EWT),
          width |-> ToU(cfg.plot_width - cfg.setback_left - cfg.setback_right - 2 * EWT),
          depth |-> ToU(cfg.plot_length - cfg.setback_front - cfg.setback_rear - 2 * EWT)]

\* _r : x, y, w, d in u, each rounded to a millimetre
_r(room_id, rtype, x, y, w, d) ==
    [id |-> room_id, type |-> rtype,
     x |-> RoundDiv(x, 600), y |-> RoundDiv(y, 600),
     w |-> RoundDiv(w, 600), d |-> RoundDiv(d, 600)]

\* rm.depth = round(rm.depth - bal_d - iwt, 3) for the bedrooms on the line y0
ShrinkBeds(rooms, y0, exact) ==
    [k \in 1..Len(rooms) |->
        IF rooms[k].type = "bedroom"
           /\ (IF exact THEN ToU(rooms[k].y) = y0
                        ELSE Abs(ToU(rooms[k].y) - y0) < ToU(10))
        THEN [rooms[k] EXCEPT !.d = @ - BAL_D - IWT]
        ELSE rooms[k]]

_bed_rooms_ff(n, ox, bed_y, W, d_bed) ==
    IF n = 1 THEN
        <<_r("ff_bed_1", "bedroom", ox, bed_y, W, d_bed)>>
    ELSE IF n = 2 THEN
        LET bw == (W - ToU(IWT)) \div 2 IN
        <<_r("ff_bed_1", "bedroom", ox, bed_y, bw, d_bed),
          _r("ff_bed_2", "bedroom", ox + bw + ToU(IWT), bed_y, W - bw - ToU(IWT), d_bed)>>
    ELSE IF n = 3 THEN
        LET bw == (W - 2 * ToU(IWT)) \div 3 IN
        <<_r("ff_bed_1", "bedroom", ox, bed_y, bw, d_bed),
          _r("ff_bed_2", "bedroom", ox + bw + ToU(IWT), bed_y, bw, d_bed),
          _r("ff_bed_3", "bedroom", ox + 2 * (bw + ToU(IWT)), bed_y,
             W - 2 * (bw + ToU(IWT)), d_bed)>>
    ELSE
        LET bw == (W - 2 * ToU(IWT)) \div 3
            half_d == d_bed \div 2 - ToU(IWT) \div 2
        IN
        <<_r("ff_bed_1", "bedroom", ox, bed_y, bw, half_d),
          _r("ff_bed_2", "bedroom", ox + bw + ToU(IWT), bed_y, bw, half_d),
          _r("ff_bed_3", "bedroom", ox + 2 * (bw + ToU(IWT)), bed_y, bw, half_d),
          _r("ff_bed_4", "bedroom", ox, bed_y + half_d + ToU(IWT), W,
             d_bed - half_d - ToU(IWT))>>

\* min(n_beds, 3) if n_beds == 4 else n_beds
BedCountFF(n_beds) == IF n_beds = 4 THEN Min(n_beds, 3) ELSE n_beds

NoCompliance == [passed |-> TRUE, violations |-> <<>>, warnings |-> <<>>]
NoScore == [total |-> -1, natural_light |-> -1, adjacency |-> -1,
            aspect_ratio |-> -1, circulation |-> -1, vastu |-> -1]

\* an optional FloorPlan that is None
NoFloor == [present |-> FALSE, rooms |-> <<>>]

\* Layout(id, ground_floor, first_floor, compliance): the ground floor has
\* floor_type "ground", second_floor and basement_floor default to None
MkLayout(lid, gf, ff) ==
    [id |-> lid, ground_floor |-> gf, first_floor |-> ff,
     ground_floor_type |-> "ground",
     second_floor |-> NoFloor, basement_floor |-> NoFloor,
     compliance |-> NoCompliance, score |-> NoScore]


Opt(cond, rooms) == IF cond THEN rooms ELSE <<>>

(***************************************************************************)
(* Layout A - Front Staircase                                              *)
(***************************************************************************)
layout_a(cfg) ==
    LET fp == _floor_plate(cfg)
        ox == fp.ox
        oy == fp.oy
        W == fp.width
        D == fp.depth
        iwt == ToU(IWT)
        sw == ToU(STAIR_W)
        pw == ToU(PARK_W)
        n_beds == cfg.num_bedrooms
        d_stair == ToU(STAIR_D)
        kx == Max(Frac(W, 55, 100), ToU(100))
        d_service == IF kx >= ToU(1500) THEN ToU(3000)
                     ELSE Max(ToU(3000), DivU(4500000, kx))
        d_living == D - d_stair - d_service - 2 * iwt
        k_w == Max(Frac(W, 55, 100), DivU(4500000, d_service))
        t_w == W - k_w - iwt
        foyer_x == ox + sw + iwt + pw + iwt
        foyer_w == W - sw - iwt - pw - iwt
        entry_w == W - sw - iwt
        living_y == oy + d_stair + iwt
        d_living_zone == Frac(d_living, 55, 100)
        d_gf_bed == d_living - d_living_zone - iwt
        gf_bed_y == living_y + d_living_zone + iwt
        svc_y == oy + D - d_service
        remaining_w == t_w - ToU(POOJA_W) - iwt
        gf_front ==
            IF cfg.parking
            THEN <<_r("gf_parking", "parking", ox + sw + iwt, oy, pw, d_stair)>>
                 \o Opt(foyer_w > ToU(300),
                        <<_r("gf_foyer", "utility", foyer_x, oy, foyer_w, d_stair)>>)
            ELSE <<_r("gf_entry", "utility", ox + sw + iwt, oy, entry_w, d_stair)>>
        gf_mid ==
            IF n_beds = 4
            THEN <<_r("gf_living", "living", ox, living_y, W, d_living_zone),
                   _r("gf_bed_m", "bedroom", ox, gf_bed_y, Frac(W, 6, 10), d_gf_bed)>>
                 \o Opt(Frac(W, 4, 10) - iwt > ToU(1000),
                        <<_r("gf_dining", "dining", ox + Frac(W, 6, 10) + iwt, gf_bed_y,
                             Frac(W, 4, 10) - iwt, d_gf_bed)>>)
            ELSE <<_r("gf_living", "living", ox, living_y, W, d_living)>>
        gf_svc ==
            IF cfg.has_pooja /\ t_w > ToU(POOJA_W) + iwt + ToU(1000)
            THEN <<_r("gf_kitchen", "kitchen", ox, svc_y, k_w, d_service),
                   _r("gf_pooja", "pooja", ox + k_w + iwt, svc_y, ToU(POOJA_W), d_service)>>
                 \o Opt(remaining_w > ToU(500),
                        <<_r("gf_toilet_1", "toilet", ox + k_w + iwt + ToU(POOJA_W) + iwt,
                             svc_y, remaining_w, d_service)>>)
            ELSE <<_r("gf_kitchen", "kitchen", ox, svc_y, k_w, d_service)>>
                 \o Opt(t_w > ToU(500),
                        <<_r("gf_toilet_1", "toilet", ox + k_w + iwt, svc_y, t_w, d_service)>>)
        gf_rooms == <<_r("gf_stair", "staircase", ox, oy, sw, d_stair)>>
                    \o gf_front \o gf_mid \o gf_svc
        wc2_w == W - sw - iwt
        bed_y == oy + d_stair + iwt
        d_bed == D - d_stair - iwt
        bed_count == BedCountFF(n_beds)
        with_study == cfg.has_study /\ d_bed > ToU(3500) /\ W > ToU(STUDY_W) + iwt + ToU(3000)
        d_study == Min(d_bed, ToU(3000))
        bed_W == W - ToU(STUDY_W) - iwt
        ff_base ==
            <<_r("ff_stair", "staircase", ox, oy, sw, d_stair),
              IF cfg.toilets >= 2
              THEN _r("ff_toilet_2", "toilet", ox + sw + iwt, oy, wc2_w, d_stair)
              ELSE _r("ff_landing", "utility", ox + sw + iwt, oy, wc2_w, d_stair)>>
            \o (IF with_study
                THEN <<_r("ff_study", "study", ox + W - ToU(STUDY_W), bed_y,
                          ToU(STUDY_W), d_study)>>
                     \o _bed_rooms_ff(bed_count, ox, bed_y, bed_W, d_bed)
                ELSE _bed_rooms_ff(bed_count, ox, bed_y, W, d_bed))
        ff_rooms ==
            IF cfg.has_balcony /\ d_bed > ToU(2500)
            THEN ShrinkBeds(ff_base, bed_y, FALSE)
                 \o <<_r("ff_balcony", "balcony", ox, bed_y + (d_bed - ToU(BAL_D)),
                         W, ToU(BAL_D))>>
            ELSE ff_base
    IN  MkLayout("A", gf_rooms, ff_rooms)

(***************************************************************************)
(* Layout B - Centre Staircase                                             *)
(***************************************************************************)
layout_b(cfg) ==
    LET fp == _floor_plate(cfg)
        ox == fp.ox
        oy == fp.oy
        W == fp.width
        D == fp.depth
        iwt == ToU(IWT)
        sw == ToU(STAIR_W)
        pw == ToU(PARK_W)
        n_beds == cfg.num_bedrooms
        d_front == Frac(D, 40, 100)
        d_stair == ToU(STAIR_D)
        d_rear == D - d_front - d_stair - 2 * iwt
        stair_y == oy + d_front + iwt
        rear_y == stair_y + d_stair + iwt
        wc_w == W - sw - iwt
        k_w == W - ToU(POOJA_W) - iwt
        gf_front ==
            IF cfg.parking
            THEN <<_r("gf_parking", "parking", ox, oy, pw, d_front),
                   _r("gf_living", "living", ox + pw + iwt, oy, W - pw - iwt, d_front)>>
            ELSE <<_r("gf_living", "living", ox, oy, W, d_front)>>
        gf_mid ==
            <<_r("gf_stair", "staircase", ox, stair_y, sw, d_stair),
              _r("gf_toilet_1", "toilet", ox + sw + iwt, stair_y, wc_w, d_stair)>>
        gf_rear ==
            IF cfg.has_pooja /\ W > ToU(4000)
            THEN <<_r("gf_kitchen", "kitchen", ox, rear_y, k_w, d_rear),
                   _r("gf_pooja", "pooja", ox + k_w + iwt, rear_y, ToU(POOJA_W), d_rear)>>
            ELSE <<_r("gf_kitchen", "kitchen", ox, rear_y, W, d_rear)>>
        gf_extra ==
            Opt(n_beds = 4 /\ d_rear > ToU(3000),
                <<_r("gf_dining", "dining", ox, rear_y, W, d_rear \div 2),
                  _r("gf_bed_m", "bedroom", ox, rear_y + d_rear \div 2 + iwt, W,
                     d_rear \div 2 - iwt)>>)
        gf_rooms == gf_front \o gf_mid \o gf_rear \o gf_extra
        bed_count == IF n_beds >= 3 THEN Min(n_beds, 3) ELSE n_beds
        bw == IF bed_count <= 2 THEN (W - iwt) \div 2 ELSE (W - 2 * iwt) \div 3
        ff_beds ==
            IF bed_count = 1
            THEN <<_r("ff_bed_1", "bedroom", ox, oy, W, d_front)>>
            ELSE IF bed_count = 2
            THEN <<_r("ff_bed_1", "bedroom", ox, oy, bw, d_front),
                   _r("ff_bed_2", "bedroom", ox + bw + iwt, oy, W - bw - iwt, d_front)>>
            ELSE <<_r("ff_bed_1", "bedroom", ox, oy, bw, d_front),
                   _r("ff_bed_2", "bedroom", ox + bw + iwt, oy, bw, d_front)>>
        ff_mid ==
            <<_r("ff_stair", "staircase", ox, stair_y, sw, d_stair),
              IF cfg.toilets >= 2
              THEN _r("ff_toilet_2", "toilet", ox + sw + iwt, stair_y, wc_w, d_stair)
              ELSE _r("ff_landing", "utility", ox + sw + iwt, stair_y, wc_w, d_stair)>>
        ff_rear ==
            IF n_beds >= 3
            THEN <<_r("ff_bed_3", "bedroom", ox, rear_y, W, d_rear)>>
            ELSE IF cfg.has_study
            THEN <<_r("ff_study", "study", ox, rear_y, W, d_rear)>>
            ELSE <<_r("ff_utility", "utility", ox, rear_y, W, d_rear)>>
    IN  MkLayout("B", gf_rooms, ff_beds \o ff_mid \o ff_rear)

(***************************************************************************)
(* Layout C - Rear Staircase                                               *)
(***************************************************************************)
layout_c(cfg) ==
    LET fp == _floor_plate(cfg)
        ox == fp.ox
        oy == fp.oy
        W == fp.width
        D == fp.depth
        iwt == ToU(IWT)
        sw == ToU(STAIR_W)
        pw == ToU(PARK_W)
        n_beds == cfg.num_bedrooms
        d_stair == ToU(STAIR_D)
        d_front == D - d_stair - iwt
        stair_y == oy + d_front + iwt
        stair_x == ox + W - sw
        k_w == Max(Frac(W, 55, 100), DivU(4500000, d_stair))
        t_w == W - sw - iwt - k_w - iwt
        d_lv == Frac(d_front, 55, 100)
        rem_w == t_w - ToU(POOJA_W) - iwt
        gf_front ==
            IF cfg.parking
            THEN <<_r("gf_parking", "parking", ox, oy, pw, d_front),
                   _r("gf_living", "living", ox + pw + iwt, oy, W - pw - iwt, d_front)>>
            ELSE IF n_beds = 4 /\ d_front > ToU(4000)
            THEN <<_r("gf_living", "living", ox, oy, W, d_lv),
                   _r("gf_bed_m", "bedroom", ox, oy + d_lv + iwt, Frac(W, 65, 100),
                      d_front - d_lv - iwt),
                   _r("gf_dining", "dining", ox + Frac(W, 65, 100) + iwt, oy + d_lv + iwt,
                      Frac(W, 35, 100) - iwt, d_front - d_lv - iwt)>>
            ELSE <<_r("gf_living", "living", ox, oy, W, d_front)>>
        gf_svc ==
            <<_r("gf_kitchen", "kitchen", ox, stair_y, k_w, d_stair)>>
            \o (IF cfg.has_pooja /\ t_w > ToU(POOJA_W) + ToU(500)
                THEN <<_r("gf_pooja", "pooja", ox + k_w + iwt, stair_y, ToU(POOJA_W), d_stair)>>
                     \o Opt(rem_w > ToU(500),
                            <<_r("gf_toilet_1", "toilet",
                                 ox + k_w + iwt + ToU(POOJA_W) + iwt, stair_y, rem_w, d_stair)>>)
                ELSE Opt(t_w > ToU(500),
                         <<_r("gf_toilet_1", "toilet", ox + k_w + iwt, stair_y, t_w, d_stair)>>))
            \o <<_r("gf_stair", "staircase", stair_x, stair_y, sw, d_stair)>>
        ff_beds == _bed_rooms_ff(BedCountFF(n_beds), ox, oy, W, d_front)
        ff_front ==
            IF cfg.has_balcony
            THEN ShrinkBeds(ff_beds, oy, FALSE)
                 \o <<_r("ff_balcony", "balcony", ox, oy + (d_front - ToU(BAL_D)),
                         W, ToU(BAL_D))>>
            ELSE ff_beds
        toilet_zone_w == W - sw - iwt
        ff_rear ==
            <<_r("ff_stair", "staircase", stair_x, stair_y, sw, d_stair),
              IF cfg.toilets >= 2
              THEN _r("ff_toilet_2", "toilet", ox, stair_y, toilet_zone_w, d_stair)
              ELSE _r("ff_landing", "utility", ox, stair_y, toilet_zone_w, d_stair)>>
    IN  MkLayout("C", gf_front \o gf_svc, ff_front \o ff_rear)

(***************************************************************************)
(* Layout D - Corner Entry                                                 *)
(***************************************************************************)
\* index of the last bedroom of a room list (0 when there is none)
LastBedIndex(rooms) ==
    LET idx == {k \in 1..Len(rooms) : rooms[k].type = "bedroom"}
    IN  IF idx = {} THEN 0 ELSE CHOOSE k \in idx : \A j \in idx : j <= k

layout_d(cfg) ==
    LET fp == _floor_plate(cfg)
        ox == fp.ox
        oy == fp.oy
        W == fp.width
        D == fp.depth
        iwt == ToU(IWT)
        sw == ToU(STAIR_W)
        pw == ToU(PARK_W)
        n_beds == cfg.num_bedrooms
        d_stair == ToU(STAIR_D)
        living_w == W - sw - iwt
        d_front == Max(d_stair, Frac(D, 35, 100))
        d_rear == D - d_front - iwt
        rear_y == oy + d_front + iwt
        foyer_w == living_w - pw - iwt
        k_w == Frac(W, 55, 100)
        din_w == Frac(W, 30, 100)
        t_w == W - k_w - din_w - 2 * iwt
        rem == t_w - ToU(POOJA_W) - iwt
        gf_front ==
            <<_r("gf_stair", "staircase", ox, oy, sw, d_stair)>>
            \o (IF cfg.parking
                THEN <<_r("gf_parking", "parking", ox + sw + iwt, oy, pw, d_stair),
                       _r("gf_living", "living", ox + sw + iwt + pw + iwt, oy,
                          foyer_w, d_front)>>
                ELSE <<_r("gf_living", "living", ox + sw + iwt, oy, living_w, d_front)>>)
        gf_rear ==
            <<_r("gf_kitchen", "kitchen", ox, rear_y, k_w, d_rear),
              _r("gf_dining", "dining", ox + k_w + iwt, rear_y, din_w, d_rear)>>
            \o (IF cfg.has_pooja /\ t_w > ToU(POOJA_W) + ToU(500)
                THEN <<_r("gf_pooja", "pooja", ox + k_w + iwt + din_w + iwt, rear_y,
                          ToU(POOJA_W), d_rear)>>
                     \o Opt(rem > ToU(500),
                            <<_r("gf_toilet_1", "toilet",
                                 ox + k_w + iwt + din_w + iwt + ToU(POOJA_W) + iwt,
                                 rear_y, rem, d_rear)>>)
                ELSE Opt(t_w > ToU(500),
                         <<_r("gf_toilet_1", "toilet", ox + k_w + iwt + din_w + iwt,
                              rear_y, t_w, d_rear)>>))
        landing_w == W - sw - iwt
        bed_y == oy + d_stair + iwt
        d_bed == D - d_stair - iwt
        ff_base ==
            <<_r("ff_stair", "staircase", ox, oy, sw, d_stair),
              IF cfg.toilets >= 2
              THEN _r("ff_toilet_2", "toilet", ox + sw + iwt, oy, landing_w, d_stair)
              ELSE _r("ff_landing", "utility", ox + sw + iwt, oy, landing_w, d_stair)>>
            \o _bed_rooms_ff(BedCountFF(n_beds), ox, bed_y, W, d_bed)
        lb == LastBedIndex(ff_base)
        last_bed == [ff_base[lb] EXCEPT !.d = @ - 2500 - IWT]
        ff_rooms ==
            IF cfg.has_study /\ d_bed > ToU(4000)
            THEN [ff_base EXCEPT ![lb] = last_bed]
                 \o <<_r("ff_study", "study", ToU(last_bed.x),
                         ToU(last_bed.y) + ToU(last_bed.d) + iwt,
                         ToU(last_bed.w), ToU(2500))>>
            ELSE ff_base
    IN  MkLayout("D", gf_front \o gf_rear, ff_rooms)

(***************************************************************************)
(* Layout E - Open Plan                                                    *)
(***************************************************************************)
layout_e(cfg) ==
    LET fp == _floor_plate(cfg)
        ox == fp.ox
        oy == fp.oy
        W == fp.width
        D == fp.depth
        iwt == ToU(IWT)
        sw == ToU(STAIR_W)
        pw == ToU(PARK_W)
        n_beds == cfg.num_bedrooms
        d_stair == ToU(STAIR_D)
        d_front == Max(Frac(D, 38, 100), ToU(4000))
        d_mid == d_stair
        d_rear == D - d_front - d_mid - 2 * iwt
        stair_y == oy + d_front + iwt
        rear_y == stair_y + d_mid + iwt
        t_ctr_w == W - sw - iwt
        kit_w == Frac(W, 55, 100)
        din_w == W - kit_w
        din_w_new == din_w - ToU(POOJA_W) - iwt
        gf_front ==
            IF cfg.parking
            THEN <<_r("gf_parking", "parking", ox, oy, pw, d_front),
                   _r("gf_living", "living", ox + pw + iwt, oy, W - pw - iwt, d_front)>>
            ELSE <<_r("gf_living", "living", ox, oy, W, d_front)>>
        gf_mid ==
            <<_r("gf_stair", "staircase", ox, stair_y, sw, d_mid),
              _r("gf_toilet_1", "toilet", ox + sw + iwt, stair_y, t_ctr_w, d_mid)>>
        gf_rear ==
            IF cfg.has_pooja /\ d_rear > ToU(2000)
            THEN <<_r("gf_kitchen", "kitchen", ox, rear_y, kit_w, d_rear),
                   _r("gf_dining", "dining", ox + kit_w, rear_y, din_w_new, d_rear),
                   _r("gf_pooja", "pooja", ox + kit_w + din_w_new + iwt, rear_y,
                      ToU(POOJA_W), d_rear)>>
            ELSE <<_r("gf_kitchen", "kitchen", ox, rear_y, kit_w, d_rear),
                   _r("gf_dining", "dining", ox + kit_w, rear_y, din_w, d_rear)>>
        ff_base ==
            <<_r("ff_stair", "staircase", ox, stair_y, sw, d_mid),
              IF cfg.toilets >= 2
              THEN _r("ff_toilet_2", "toilet", ox + sw + iwt, stair_y, t_ctr_w, d_mid)
              ELSE _r("ff_landing", "utility", ox + sw + iwt, stair_y, t_ctr_w, d_mid)>>
            \o _bed_rooms_ff(BedCountFF(n_beds), ox, oy, W, d_front)
            \o (IF n_beds >= 3
                THEN <<_r("ff_bed_3", "bedroom", ox, rear_y, W, d_rear)>>
                ELSE IF cfg.has_study
                THEN <<_r("ff_study", "study", ox, rear_y, W, d_rear)>>
                ELSE <<_r("ff_utility", "utility", ox, rear_y, W, d_rear)>>)
        ff_rooms ==
            IF cfg.has_balcony /\ d_front > ToU(3500)
            THEN ShrinkBeds(ff_base, oy, FALSE)
                 \o <<_r("ff_balcony", "balcony", ox, oy + (d_front - ToU(BAL_D)),
                         W, ToU(BAL_D))>>
            ELSE ff_base
    IN  MkLayout("E", gf_front \o gf_mid \o gf_rear, ff_rooms)

(***************************************************************************)
(* Layout F - Courtyard                                                    *)
(***************************************************************************)
\* layout_f returns None below the minimum buildable dimensions
layout_f_feasible(cfg) ==
    LET fp == _floor_plate(cfg)
    IN  ~(fp.width < ToU(8000) \/ fp.depth < ToU(10000))

layout_f(cfg) ==
    LET fp == _floor_plate(cfg)
        ox == fp.ox
        oy == fp.oy
        W == fp.width
        D == fp.depth
        iwt == ToU(IWT)
        sw == ToU(STAIR_W)
        pw == ToU(PARK_W)
        n_beds == cfg.num_bedrooms
        ct_w == Frac(W, 35, 100)
        ct_d == Frac(D, 30, 100)
        ct_x == ox + (W - ct_w) \div 2
        ct_y == oy + Frac(D, 35, 100)
        d_front == ct_y - oy - iwt
        k_w == ct_x - ox - iwt
        right_x == ct_x + ct_w + iwt
        right_w == ox + W - right_x
        rear_y == ct_y + ct_d + iwt
        d_rear == oy + D - rear_y
        gf_front ==
            IF cfg.parking
            THEN <<_r("gf_parking", "parking", ox, oy, pw, d_front),
                   _r("gf_living", "living", ox + pw + iwt, oy, W - pw - iwt, d_front)>>
            ELSE <<_r("gf_living", "living", ox, oy, W, d_front)>>
        gf_mid ==
            <<_r("gf_kitchen", "kitchen", ox, ct_y, k_w, ct_d)>>
            \o (IF cfg.has_pooja /\ right_w > ToU(POOJA_W) + ToU(1000)
                THEN <<_r("gf_pooja", "pooja", right_x, ct_y, ToU(POOJA_W), ct_d),
                       _r("gf_toilet_1", "toilet", right_x + ToU(POOJA_W) + iwt, ct_y,
                          right_w - ToU(POOJA_W) - iwt, ct_d)>>
                ELSE <<_r("gf_toilet_1", "toilet", right_x, ct_y, right_w, ct_d)>>)
        gf_rear ==
            <<_r("gf_stair", "staircase", ox, rear_y, sw, d_rear),
              _r("gf_dining", "dining", ox + sw + iwt, rear_y, W - sw - iwt, d_rear)>>
        d_bed == ct_y + ct_d - oy
        ff_base ==
            <<_r("ff_stair", "staircase", ox, rear_y, sw, d_rear),
              IF cfg.toilets >= 2
              THEN _r("ff_toilet_2", "toilet", ox + sw + iwt, rear_y, W - sw - iwt, d_rear)
              ELSE _r("ff_landing", "utility", ox + sw + iwt, rear_y, W - sw - iwt, d_rear)>>
            \o _bed_rooms_ff(BedCountFF(n_beds), ox, oy, W, d_bed)
        ff_rooms ==
            IF cfg.has_balcony
            THEN ShrinkBeds(ff_base, oy, TRUE)
                 \o <<_r("ff_balcony", "balcony", ox, oy + (d_bed - ToU(BAL_D)),
                         W, ToU(BAL_D))>>
            ELSE ff_base
    IN  MkLayout("F", gf_front \o gf_mid \o gf_rear, ff_rooms)

(***************************************************************************)
(* Compliance checker (compliance.py)                                      *)
(***************************************************************************)
RECURSIVE Concat(_)
Concat(ss) == IF ss = <<>> THEN <<>> ELSE Head(ss) \o Concat(Tail(ss))

Msg(kind, room_id) == [kind |-> kind, room |-> room_id]

AllRooms(layout) == layout.ground_floor \o layout.first_floor

\* city.lower().strip() on the city strings of the requests
CityKey(city) ==
    CASE city \in {"bangalore", " Bangalore ", "BANGALORE"} -> "bangalore"
      [] city \in {"chennai", "Chennai "} -> "chennai"
      [] city \in {"other", " OTHER"} -> "other"
      [] city = "Atlantis" -> "atlantis"
      [] OTHER -> city

\* the city codes of the city-rules table
CityCodes == {"bangalore", "chennai", "other"}

\* far_by_road_width rows of a city, ascending road_width_max_m (mm), far in 1/100
CityFarTable(city) ==
    CASE city = "bangalore" ->
            <<[road_width_max |-> 9000, far |-> 175], [road_width_max |-> 60000, far |-> 225]>>
      [] city = "chennai" ->
            <<[road_width_max |-> 9000, far |-> 100], [road_width_max |-> 12000, far |-> 150],
              [road_width_max |-> 60000, far |-> 200]>>
      [] OTHER ->
            <<[road_width_max |-> 9000, far |-> 150], [road_width_max |-> 60000, far |-> 200]>>

DefaultFar == 150

\* variant: the city string is looked up as it was given
get_city_far_exact_key(city, road_width) ==
    LET city_key == IF city \in CityCodes THEN city ELSE "other"
        table == CityFarTable(city_key)
        hits == {k \in 1..Len(table) : road_width <= table[k].road_width_max}
    IN  IF hits = {} THEN -1
        ELSE table[CHOOSE k \in hits : \A j \in hits : k <= j].far

\* the far of the first row whose road_width_max_m is not below the road width,
\* -1 for None
get_city_far(city, road_width) ==
    LET city_key == IF CityKey(city) \in CityCodes THEN CityKey(city) ELSE "other"
        table == CityFarTable(city_key)
        hits == {k \in 1..Len(table) : road_width <= table[k].road_width_max}
    IN  IF hits = {} THEN -1
        ELSE table[CHOOSE k \in hits : \A j \in hits : k <= j].far

\* variant: only the vertical boundary is compared
BoundaryViolationsVerticalOnly(room, cfg) ==
    Opt(room.y < cfg.setback_front + EWT - Tol
        \/ room.y + room.d > cfg.plot_length - cfg.setback_rear - EWT + Tol,
        <<Msg("outside_vertical", room.id)>>)

\* room boundary vs. setback lines
BoundaryViolations(room, cfg) ==
    LET min_x == cfg.setback_left + EWT
        max_x == cfg.plot_width - cfg.setback_right - EWT
        min_y == cfg.setback_front + EWT
        max_y == cfg.plot_length - cfg.setback_rear - EWT
    IN  Opt(room.x < min_x - Tol \/ room.x + room.w > max_x + Tol,
            <<Msg("outside_horizontal", room.id)>>)
        \o Opt(room.y < min_y - Tol \/ room.y + room.d > max_y + Tol,
               <<Msg("outside_vertical", room.id)>>)

\* minimum plot dimensions
PlotViolations(cfg) ==
    Opt(cfg.plot_length < MinPlotLength, <<Msg("plot_length", "")>>)
    \o Opt(cfg.plot_width < MinPlotWidth, <<Msg("plot_width", "")>>)

\* variant: a staircase is compared by its width alone
StairViolationsWidthOnly(room) ==
    Opt(room.type = "staircase" /\ room.w < MinStairWidth,
        <<Msg("stair_width", room.id)>>)

\* staircase width
StairViolations(room) ==
    Opt(room.type = "staircase" /\ room.w < MinStairWidth /\ room.d < MinStairWidth,
        <<Msg("stair_width", room.id)>>)

\* variant: the floor coverage is not compared
CoverageNotCompared(cfg) == <<>>

\* floor coverage; plot dimensions are multiples of 10 mm, areas are compared in
\* units of 100 sq mm
CoverageViolations(cfg) ==
    LET buildable_w == cfg.plot_width - cfg.setback_left - cfg.setback_right
        buildable_d == cfg.plot_length - cfg.setback_front - cfg.setback_rear
        footprint == buildable_w * buildable_d
        plot_area == cfg.plot_width * cfg.plot_length
    IN  Opt(100 * (footprint \div 100) > MaxFloorCoveragePct * (plot_area \div 100),
            <<Msg("floor_coverage", "")>>)

check(layout, cfg) ==
    LET all_rooms == AllRooms(layout)
        plot_v == PlotViolations(cfg)
        AreaV(room) ==
            Opt(room.type = "bedroom" /\ Area(room) < MinBedroomArea,
                <<Msg("bedroom_area", room.id)>>)
            \o Opt(room.type = "kitchen" /\ Area(room) < MinKitchenArea,
                   <<Msg("kitchen_area", room.id)>>)
            \o Opt(room.type = "toilet" /\ Area(room) < MinToiletArea,
                   <<Msg("toilet_area", room.id)>>)
        AreaW(room) ==
            Opt(room.type = "bedroom" /\ Min(room.w, room.d) < MinBedroomWidth,
                <<Msg("bedroom_width", room.id)>>)
            \o Opt(room.type = "kitchen" /\ Min(room.w, room.d) < MinKitchenWidth,
                   <<Msg("kitchen_width", room.id)>>)
            \o Opt(room.type = "toilet" /\ Min(room.w, room.d) < MinToiletWidth,
                   <<Msg("toilet_width", room.id)>>)
        StairV(room) == StairViolations(room)
        BeamW(room) == Opt(room.w > MaxBeamSpan, <<Msg("beam_span", room.id)>>)
        buildable_w == cfg.plot_width - cfg.setback_left - cfg.setback_right
        buildable_d == cfg.plot_length - cfg.setback_front - cfg.setback_rear
        footprint == buildable_w * buildable_d
        plot_area == cfg.plot_width * cfg.plot_length
        cov_v == CoverageViolations(cfg)
        far_row == get_city_far(cfg.city, cfg.road_width_m)
        far_limit == IF far_row = -1 THEN DefaultFar ELSE far_row
        far_w == Opt((footprint \div 100) * 200 > (far_limit + 1) * (plot_area \div 100),
                     <<Msg("far", "")>>)
        BoundV(room) == BoundaryViolations(room, cfg)
        WindowW(room) ==
            Opt(room.type \in {"bedroom", "living", "study", "dining"} /\ Area(room) < 1000,
                <<Msg("window", room.id)>>)
        Over(F(_), rooms) == Concat([k \in 1..Len(rooms) |-> F(rooms[k])])
        violations == plot_v \o Over(AreaV, all_rooms) \o Over(StairV, all_rooms)
                      \o cov_v \o Over(BoundV, all_rooms)
        warnings == Over(AreaW, all_rooms) \o Over(BeamW, layout.ground_floor)
                    \o far_w \o Over(WindowW, all_rooms)
    IN  [passed |-> Len(violations) = 0, violations |-> violations, warnings |-> warnings]

(***************************************************************************)
(* Vastu checker (vastu.py)                                                *)
(***************************************************************************)
ZONE_GRID_ROAD_S == <<<<"NW", "N", "NE">>, <<"W", "C", "E">>, <<"SW", "S", "SE">>>>
ZONE_GRID_ROAD_N == <<<<"SE", "S", "SW">>, <<"E", "C", "W">>, <<"NE", "N", "NW">>>>
ZONE_GRID_ROAD_E == <<<<"NE", "E", "SE">>, <<"N", "C", "S">>, <<"NW", "W", "SW">>>>
ZONE_GRID_ROAD_W == <<<<"SW", "W", "NW">>, <<"S", "C", "N">>, <<"SE", "E", "NE">>>>

ZONE_GRIDS(road_side) ==
    CASE road_side = "S" -> ZONE_GRID_ROAD_S
      [] road_side = "N" -> ZONE_GRID_ROAD_N
      [] road_side = "E" -> ZONE_GRID_ROAD_E
      [] road_side = "W" -> ZONE_GRID_ROAD_W
      [] OTHER -> ZONE_GRID_ROAD_S

VASTU_RULES(zone) ==
    CASE zone = "NE" -> [avoid |-> {"bedroom", "parking"}, prohibit |-> {"kitchen", "toilet"}]
      [] zone = "E"  -> [avoid |-> {}, prohibit |-> {}]
      [] zone = "SE" -> [avoid |-> {"bedroom", "pooja"}, prohibit |-> {"toilet"}]
      [] zone = "S"  -> [avoid |-> {"pooja", "living"}, prohibit |-> {}]
      [] zone = "SW" -> [avoid |-> {"pooja", "balcony"}, prohibit |-> {"toilet", "kitchen"}]
      [] zone = "W"  -> [avoid |-> {}, prohibit |-> {}]
      [] zone = "NW" -> [avoid |-> {}, prohibit |-> {}]
      [] zone = "N"  -> [avoid |-> {"kitchen", "toilet"}, prohibit |-> {}]
      [] zone = "C"  -> [avoid |-> {"bedroom", "kitchen"}, prohibit |-> {"toilet"}]
      [] OTHER -> [avoid |-> {}, prohibit |-> {}]

\* variant: row 0 is taken for the front third
_get_zone_front_row_first(cx2, cy2, plot_w, plot_l, road_side) ==
    LET grid == ZONE_GRIDS(road_side)
        col == IF 3 * cx2 < 2 * plot_w THEN 0
               ELSE IF 3 * cx2 < 4 * plot_w THEN 1 ELSE 2
        row == IF 3 * cy2 > 4 * plot_l THEN 2
               ELSE IF 3 * cy2 > 2 * plot_l THEN 1 ELSE 0
    IN  grid[row + 1][col + 1]

\* cx2, cy2 are twice the centre coordinates (mm), so that x + width / 2 stays integral
_get_zone(cx2, cy2, plot_w, plot_l, road_side) ==
    LET grid == ZONE_GRIDS(road_side)
        col == IF 3 * cx2 < 2 * plot_w THEN 0
               ELSE IF 3 * cx2 < 4 * plot_w THEN 1 ELSE 2
        row == IF 3 * cy2 > 4 * plot_l THEN 0
               ELSE IF 3 * cy2 > 2 * plot_l THEN 1 ELSE 2
    IN  grid[row + 1][col + 1]

RoomZone(room, cfg, road_side) ==
    _get_zone(2 * room.x + room.w, 2 * room.y + room.d,
              cfg.plot_width, cfg.plot_length, road_side)

check_vastu(layout, cfg, road_side) ==
    IF ~cfg.vastu_enabled THEN [violations |-> <<>>, warnings |-> <<>>]
    ELSE
    LET gf == layout.ground_floor
        Zone(room) == RoomZone(room, cfg, road_side)
        GenV(room) ==
            Opt(room.type \in VASTU_RULES(Zone(room)).prohibit,
                <<Msg("vastu_prohibited", room.id)>>)
        GenW(room) ==
            Opt(room.type \notin VASTU_RULES(Zone(room)).prohibit
                /\ room.type \in VASTU_RULES(Zone(room)).avoid,
                <<Msg("vastu_inauspicious", room.id)>>)
        KitW(room) ==
            Opt(room.type = "kitchen" /\ Zone(room) \notin {"SE", "NW", "E"},
                <<Msg("vastu_kitchen", room.id)>>)
        PoojaW(room) ==
            Opt(room.type = "pooja" /\ Zone(room) \notin {"NE", "N", "E"},
                <<Msg("vastu_pooja", room.id)>>)
        bed_idx == {k \in 1..Len(gf) : gf[k].type = "bedroom"}
        first_bed == gf[CHOOSE k \in bed_idx : \A j \in bed_idx : k <= j]
        master_w ==
            Opt(bed_idx # {} /\ Zone(first_bed) \notin {"SW", "S", "W"},
                <<Msg("vastu_master", first_bed.id)>>)
        Over(F(_), rooms) == Concat([k \in 1..Len(rooms) |-> F(rooms[k])])
    IN  [violations |-> Over(GenV, gf),
         warnings |-> Over(GenW, gf) \o Over(KitW, gf) \o Over(PoojaW, gf) \o master_w]

\* extend + re-evaluate passed, as generate and _solve_one do after check
\* variant: passed is not recomputed after the lists are extended
MergeVastuStalePassed(compliance, v) ==
    [passed |-> compliance.passed,
     violations |-> compliance.violations \o v.violations,
     warnings |-> compliance.warnings \o v.warnings]

MergeVastu(compliance, v) ==
    LET violations == compliance.violations \o v.violations
    IN  [passed |-> Len(violations) = 0,
         violations |-> violations,
         warnings |-> compliance.warnings \o v.warnings]

\* variant: the compliance of check alone, the Vastu findings are not merged
CheckedWithoutVastu(layout, cfg) ==
    [layout EXCEPT !.compliance = check(layout, cfg)]

\* check, then the Vastu merge when cfg.vastu_enabled
Checked(layout, cfg) ==
    LET c == check(layout, cfg)
    IN  [layout EXCEPT !.compliance =
            IF cfg.vastu_enabled
            THEN MergeVastu(c, check_vastu(layout, cfg, cfg.road_side))
            ELSE c]

(***************************************************************************)
(* Scorer (scorer.py).  Sub-scores in 1/10000 point, rounded to tenths.    *)
(***************************************************************************)
RECURSIVE ScaledDiv(_, _, _)
\* floor(a * 10^k / c), c > 0, without forming a * 10^k
ScaledDiv(a, c, k) ==
    IF k = 0 THEN a \div c
    ELSE (a \div c) * (10 ^ k) + ScaledDiv((a % c) * 10, c, k - 1)

RECURSIVE SumSeq(_)
SumSeq(s) == IF s = <<>> THEN 0 ELSE Head(s) + SumSeq(Tail(s))

_HABITABLE == {"living", "bedroom", "master_bedroom", "kitchen", "dining",
               "study", "home_office", "gym", "servant_quarter"}

_ADJACENCY_PAIRS ==
    <<[t1 |-> "kitchen", t2 |-> "dining", pts |-> 15],
      [t1 |-> "bedroom", t2 |-> "toilet", pts |-> 12],
      [t1 |-> "master_bedroom", t2 |-> "toilet", pts |-> 12],
      [t1 |-> "living", t2 |-> "staircase", pts |-> 8],
      [t1 |-> "living", t2 |-> "dining", pts |-> 10]>>

_MAX_ADJACENCY == SumSeq([k \in 1..Len(_ADJACENCY_PAIRS) |-> _ADJACENCY_PAIRS[k].pts])

_shares_wall(a, b) ==
    LET x_ov == Max(0, Min(a.x + a.w, b.x + b.w) - Max(a.x, b.x))
        y_ov == Max(0, Min(a.y + a.d, b.y + b.d) - Max(a.y, b.y))
        abuts_x == Abs(a.x + a.w - b.x) < 200 \/ Abs(b.x + b.w - a.x) < 200
        abuts_y == Abs(a.y + a.d - b.y) < 200 \/ Abs(b.y + b.d - a.y) < 200
    IN  (abuts_x /\ y_ov > 50) \/ (abuts_y /\ x_ov > 50)

_touches_boundary(room, cfg) ==
    LET bx_min == cfg.setback_left + EWT
        bx_max == cfg.plot_width - cfg.setback_right - EWT
        by_min == cfg.setback_front + EWT
        by_max == cfg.plot_length - cfg.setback_rear - EWT
    IN  \/ Abs(room.x - bx_min) < 100
        \/ Abs(room.x + room.w - bx_max) < 100
        \/ Abs(room.y - by_min) < 100
        \/ Abs(room.y + room.d - by_max) < 100

Habitable(layout) == SelectSeq(AllRooms(layout), LAMBDA r : r.type \in _HABITABLE)

_score_natural_light(layout, cfg) ==
    LET habitable == Habitable(layout)
        lit == Len(SelectSeq(habitable, LAMBDA r : _touches_boundary(r, cfg)))
    IN  IF Len(habitable) = 0 THEN 0
        ELSE (1000000 * lit) \div Len(habitable)

_score_adjacency(layout) ==
    LET all_rooms == AllRooms(layout)
        Earned(p) ==
            IF \E i \in 1..Len(all_rooms), j \in 1..Len(all_rooms) :
                  /\ all_rooms[i].type = p.t1
                  /\ all_rooms[j].type = p.t2
                  /\ _shares_wall(all_rooms[i], all_rooms[j])
            THEN p.pts ELSE 0
        earned == SumSeq([k \in 1..Len(_ADJACENCY_PAIRS) |-> Earned(_ADJACENCY_PAIRS[k])])
    IN  IF _MAX_ADJACENCY = 0 THEN 0
        ELSE Min(1000000, (1000000 * earned) \div _MAX_ADJACENCY)

_score_aspect_ratio(layout) ==
    LET habitable == Habitable(layout)
        \* (ratio - 2.0) * 10.0 when ratio > 2.0, ratio = max(w, d) / max(min(w, d), 0.01)
        Penalty(r) ==
            LET hi == Max(r.w, r.d)
                lo == Max(Min(r.w, r.d), 10)
            IN  IF hi > 2 * lo THEN ScaledDiv(10 * (hi - 2 * lo), lo, 4) ELSE 0
        penalty == SumSeq([k \in 1..Len(habitable) |-> Penalty(habitable[k])])
    IN  IF Len(habitable) = 0 THEN 1000000
        ELSE Max(0, 1000000 - penalty \div Len(habitable))

\* variant: the score above the fill band is not clamped at 0
_score_circulation_unclamped(layout, cfg) ==
    LET all_rooms == AllRooms(layout)
        total_room_area == 100 * SumSeq([k \in 1..Len(all_rooms) |-> Area(all_rooms[k])])
        bw == cfg.plot_width - cfg.setback_left - cfg.setback_right - 2 * EWT
        bd == cfg.plot_length - cfg.setback_front - cfg.setback_rear - 2 * EWT
        buildable_area == Max((bw * bd) \div 50, 100)
    IN  IF 10 * total_room_area < 6 * buildable_area
        THEN ScaledDiv(total_room_area * 10, 6 * buildable_area, 6)
        ELSE IF 10 * total_room_area <= 9 * buildable_area THEN 1000000
        ELSE 2800000 - ScaledDiv(2 * total_room_area, buildable_area, 6)

_score_circulation(layout, cfg) ==
    LET all_rooms == AllRooms(layout)
        \* areas in 1/10000 sqm
        total_room_area == 100 * SumSeq([k \in 1..Len(all_rooms) |-> Area(all_rooms[k])])
        bw == cfg.plot_width - cfg.setback_left - cfg.setback_right - 2 * EWT
        bd == cfg.plot_length - cfg.setback_front - cfg.setback_rear - 2 * EWT
        buildable_area == Max((bw * bd) \div 50, 100)
    IN  IF 10 * total_room_area < 6 * buildable_area
        THEN ScaledDiv(total_room_area * 10, 6 * buildable_area, 6)
        ELSE IF 10 * total_room_area <= 9 * buildable_area THEN 1000000
        ELSE Max(0, 2800000 - ScaledDiv(2 * total_room_area, buildable_area, 6))

_score_vastu(layout, cfg) ==
    IF ~cfg.vastu_enabled THEN 1000000
    ELSE LET v == check_vastu(layout, cfg, cfg.road_side)
         IN  Max(0, 1000000 - Len(v.violations) * 200000 - Len(v.warnings) * 50000)

score_layout(layout, cfg) ==
    LET nl == _score_natural_light(layout, cfg)
        adj == _score_adjacency(layout)
        ar == _score_aspect_ratio(layout)
        cir == _score_circulation(layout, cfg)
        vas == _score_vastu(layout, cfg)
        total == 25 * nl + 25 * adj + 20 * ar + 15 * cir + 15 * vas
    IN  [total |-> RoundDiv(total, 100000),
         natural_light |-> RoundDiv(nl, 1000),
         adjacency |-> RoundDiv(adj, 1000),
         aspect_ratio |-> RoundDiv(ar, 1000),
         circulation |-> RoundDiv(cir, 1000),
         vastu |-> RoundDiv(vas, 1000)]

\* list.sort(key = total, reverse = True): stable insertion into descending order
\* variant: an unstable sort, a layout goes in front of those of equal total
InsertDescBeforeEqual(sorted, layout) ==
    LET after == {k \in 1..Len(sorted) : sorted[k].score.total <= layout.score.total}
        pos == IF after = {} THEN Len(sorted) + 1
               ELSE CHOOSE k \in after : \A j \in after : k <= j
    IN  SubSeq(sorted, 1, pos - 1) \o <<layout>> \o SubSeq(sorted, pos, Len(sorted))

InsertDesc(sorted, layout) ==
    LET after == {k \in 1..Len(sorted) : sorted[k].score.total < layout.score.total}
        pos == IF after = {} THEN Len(sorted) + 1
               ELSE CHOOSE k \in after : \A j \in after : k <= j
    IN  SubSeq(sorted, 1, pos - 1) \o <<layout>> \o SubSeq(sorted, pos, Len(sorted))

RECURSIVE SortDesc(_, _)
SortDesc(sorted, rest) ==
    IF rest = <<>> THEN sorted
    ELSE SortDesc(InsertDesc(sorted, Head(rest)), Tail(rest))

\* scored : every input layout with its score attached, in input order
ScoreAll(layouts, cfg) ==
    [k \in 1..Len(layouts) |-> [layouts[k] EXCEPT !.score = score_layout(layouts[k], cfg)]]

\* variant: the sort is ascending (reverse=True left out)
rank_and_select_ascending(layouts, cfg, top_n) ==
    LET scored == SortDesc(<<>>, ScoreAll(layouts, cfg))
        asc == [k \in 1..Len(scored) |-> scored[Len(scored) + 1 - k]]
    IN  SubSeq(asc, 1, Min(top_n, Len(asc)))

rank_and_select(layouts, cfg, top_n) ==
    LET scored == SortDesc(<<>>, ScoreAll(layouts, cfg))
    IN  SubSeq(scored, 1, Min(top_n, Len(scored)))

\* _ADJACENCY_PAIRS of solver.py, the table of the objective
solver_ADJACENCY_PAIRS ==
    <<[t1 |-> "kitchen", t2 |-> "dining", pts |-> 15],
      [t1 |-> "bedroom", t2 |-> "toilet", pts |-> 12],
      [t1 |-> "master_bedroom", t2 |-> "toilet", pts |-> 12],
      [t1 |-> "living", t2 |-> "staircase", pts |-> 8],
      [t1 |-> "living", t2 |-> "dining", pts |-> 10],
      [t1 |-> "kitchen", t2 |-> "utility", pts |-> 6]>>

(***************************************************************************)
(* CP-SAT solver (solver.py).  Solver variables are millimetre integers    *)
(* relative to the buildable plate.                                        *)
(***************************************************************************)
\* room_specs.json : areas in sq mm, widths in mm
ROOM_SPECS(rtype) ==
    CASE rtype = "living" ->
            [min_area |-> 12000000, max_area |-> 40000000, min_width |-> 3000, max_width |-> 8000]
      [] rtype = "bedroom" ->
            [min_area |-> 9500000, max_area |-> 25000000, min_width |-> 2700, max_width |-> 6000]
      [] rtype = "kitchen" ->
            [min_area |-> 4500000, max_area |-> 15000000, min_width |-> 1800, max_width |-> 5000]
      [] rtype = "toilet" ->
            [min_area |-> 2800000, max_area |-> 6000000, min_width |-> 1200, max_width |-> 3000]
      [] rtype = "staircase" ->
            [min_area |-> 2700000, max_area |-> 9000000, min_width |-> 900, max_width |-> 3500]
      [] rtype = "pooja" ->
            [min_area |-> 1500000, max_area |-> 6000000, min_width |-> 1200, max_width |-> 3000]
      [] rtype = "study" ->
            [min_area |-> 6000000, max_area |-> 15000000, min_width |-> 2400, max_width |-> 5000]
      [] rtype = "balcony" ->
            [min_area |-> 2000000, max_area |-> 12000000, min_width |-> 1000, max_width |-> 6000]
      [] rtype = "parking" ->
            [min_area |-> 12500000, max_area |-> 20000000, min_width |-> 2500, max_width |-> 6000]
      [] OTHER ->
            [min_area |-> 2000000, max_area |-> 10000000, min_width |-> 1200, max_width |-> 4000]

RoomDef(room_id, rtype, floor) == [id |-> room_id, type |-> rtype, floor |-> floor]

BedroomId(i) ==
    CASE i = 0 -> "bedroom_0" [] i = 1 -> "bedroom_1" [] i = 2 -> "bedroom_2"
      [] i = 3 -> "bedroom_3" [] i = 4 -> "bedroom_4" [] OTHER -> "bedroom_5"

ToiletId(i) ==
    CASE i = 0 -> "toilet_0" [] i = 1 -> "toilet_1" [] i = 2 -> "toilet_2"
      [] i = 3 -> "toilet_3" [] i = 4 -> "toilet_4" [] OTHER -> "toilet_5"

_build_room_list(cfg) ==
    <<RoomDef("living_0", "living", 0), RoomDef("kitchen_0", "kitchen", 0)>>
    \o [k \in 1..cfg.num_bedrooms |->
            RoomDef(BedroomId(k - 1), "bedroom", IF k - 1 = 0 THEN 0 ELSE 1)]
    \o [k \in 1..cfg.toilets |->
            RoomDef(ToiletId(k - 1), "toilet",
                    IF k - 1 < Max(1, cfg.num_bedrooms \div 2) THEN 0 ELSE 1)]
    \o <<RoomDef("stair_0", "staircase", 0), RoomDef("stair_1", "staircase", 1)>>
    \o Opt(cfg.has_pooja, <<RoomDef("pooja_0", "pooja", 0)>>)
    \o Opt(cfg.has_study, <<RoomDef("study_0", "study", 1)>>)
    \o Opt(cfg.has_balcony, <<RoomDef("balcony_0", "balcony", 1)>>)
    \o Opt(cfg.parking, <<RoomDef("parking_0", "parking", 0)>>)

\* buildable plate of _solve_one (mm)
PlateW(cfg) == cfg.plot_width - cfg.setback_left - cfg.setback_right - 2 * EWT
PlateD(cfg) == cfg.plot_length - cfg.setback_front - cfg.setback_rear - 2 * EWT

StairZones == <<"front", "mid", "rear">>
SolverIds == <<"S1", "S2", "S3">>

\* first index of a staircase on the given floor (0 when there is none)
FirstStair(room_defs, floor) ==
    LET idx == {k \in 1..Len(room_defs) :
                   room_defs[k].type = "staircase" /\ room_defs[k].floor = floor}
    IN  IF idx = {} THEN 0 ELSE CHOOSE k \in idx : \A j \in idx : k <= j

\* the domains of _solve_one are non-empty (otherwise it returns None before solving)
DomainsOk(cfg, room_defs) ==
    /\ PlateW(cfg) > 0
    /\ PlateD(cfg) > 0
    /\ \A k \in 1..Len(room_defs) :
          LET spec == ROOM_SPECS(room_defs[k].type)
          IN  /\ Min(spec.max_width, PlateW(cfg)) >= spec.min_width
              /\ Min(spec.max_width, PlateD(cfg)) >= spec.min_width

\* the per-room constraints posted to the model
RoomConstraints(cfg, rd, v) ==
    LET spec == ROOM_SPECS(rd.type)
        bw == PlateW(cfg)
        bd == PlateD(cfg)
    IN  /\ 0 <= v.x /\ v.x <= bw - spec.min_width
        /\ 0 <= v.y /\ v.y <= bd - spec.min_width
        /\ spec.min_width <= v.w /\ v.w <= Min(spec.max_width, bw)
        /\ spec.min_width <= v.d /\ v.d <= Min(spec.max_width, bd)
        /\ v.x + v.w <= bw
        /\ v.y + v.d <= bd
        /\ v.w * v.d <= spec.max_area
        /\ v.w * v.d >= spec.min_area
        /\ v.w * 3 >= v.d
        /\ v.d * 3 >= v.w

\* add_no_overlap_2d over the rooms of one floor
NoOverlap2D(room_defs, a, floor) ==
    \A i, j \in 1..Len(room_defs) :
        (i < j /\ room_defs[i].floor = floor /\ room_defs[j].floor = floor) =>
            \/ a[i].x + a[i].w <= a[j].x
            \/ a[j].x + a[j].w <= a[i].x
            \/ a[i].y + a[i].d <= a[j].y
            \/ a[j].y + a[j].d <= a[i].y

\* variant: the x equality is not posted
StairAlignmentWithoutX(room_defs, a) ==
    LET gs == FirstStair(room_defs, 0)
        fs == FirstStair(room_defs, 1)
    IN  (gs # 0 /\ fs # 0) =>
            /\ a[gs].y = a[fs].y
            /\ a[gs].w = a[fs].w
            /\ a[gs].d = a[fs].d

\* staircase alignment across floors
StairAlignment(room_defs, a) ==
    LET gs == FirstStair(room_defs, 0)
        fs == FirstStair(room_defs, 1)
    IN  (gs # 0 /\ fs # 0) =>
            /\ a[gs].x = a[fs].x
            /\ a[gs].y = a[fs].y
            /\ a[gs].w = a[fs].w
            /\ a[gs].d = a[fs].d

\* symmetry breaking: the ground-floor staircase lies in the requested third
StairZone(cfg, room_defs, a, stair_zone) ==
    LET gs == FirstStair(room_defs, 0)
        third == PlateD(cfg) \div 3
    IN  gs # 0 =>
            CASE stair_zone = "front" -> a[gs].y + a[gs].d <= third
              [] stair_zone = "rear" -> a[gs].y >= 2 * third
              [] OTHER -> a[gs].y >= third /\ a[gs].y + a[gs].d <= 2 * third

SolverConstraints(cfg, room_defs, a, stair_zone) ==
    /\ \A k \in 1..Len(room_defs) : RoomConstraints(cfg, room_defs[k], a[k])
    /\ NoOverlap2D(room_defs, a, 0)
    /\ NoOverlap2D(room_defs, a, 1)
    /\ StairAlignment(room_defs, a)
    /\ StairZone(cfg, room_defs, a, stair_zone)

\* solver.value(..) -> Room, in plot coordinates
ExtractRooms(cfg, room_defs, a, floor) ==
    LET ox == cfg.setback_left + EWT
        oy == cfg.setback_front + EWT
        idx == SelectSeq([k \in 1..Len(room_defs) |-> k],
                         LAMBDA k : (room_defs[k].floor = 0) = (floor = 0))
    IN  [j \in 1..Len(idx) |->
            [id |-> room_defs[idx[j]].id, type |-> room_defs[idx[j]].type,
             x |-> ox + a[idx[j]].x, y |-> oy + a[idx[j]].y,
             w |-> a[idx[j]].w, d |-> a[idx[j]].d]]

NoLayout == MkLayout("none", <<>>, <<>>)

\* _solve_one for the assignment a that solver.solve() reports (status FEASIBLE or
\* OPTIMAL only if a satisfies the model); NoLayout stands for the None result
\* the Layout _solve_one builds from the solution, compliance attached
BuildSolved(cfg, room_defs, layout_id, a) ==
    Checked(MkLayout(layout_id, ExtractRooms(cfg, room_defs, a, 0),
                     ExtractRooms(cfg, room_defs, a, 1)), cfg)

_solve_one(cfg, room_defs, stair_zone, layout_id, a) ==
    IF ~DomainsOk(cfg, room_defs) THEN NoLayout
    ELSE IF ~SolverConstraints(cfg, room_defs, a, stair_zone) THEN NoLayout
    ELSE LET layout == BuildSolved(cfg, room_defs, layout_id, a)
         IN  IF layout.compliance.passed THEN layout ELSE NoLayout

\* Candidate assignments examined by the search.  Rooms are packed into a lattice
\* of 2 columns x 3 rows over the plate, the staircase in the row of the requested
\* zone; q selects the starting column, the packing stride and whether the
\* first-floor staircase is tried in the neighbouring column.
AnswerParams(q) ==
    [sc |-> (q \div 3) % 2,
     stride |-> IF q % 3 = 2 THEN 2 ELSE IF (q \div 3) % 2 = 0 THEN 1 ELSE 5,
     ffs |-> IF q % 3 = 1 THEN 1 ELSE 0]

Candidate(cfg, room_defs, stair_zone, q) ==
    LET p == AnswerParams(q)
        cw == PlateW(cfg) \div 2
        third == PlateD(cfg) \div 3
        zr == CASE stair_zone = "front" -> 0 [] stair_zone = "rear" -> 2 [] OTHER -> 1
        stairCell(floor) == 2 * zr + (IF floor = 0 THEN p.sc ELSE (p.sc + p.ffs) % 2)
        rank(k) == Cardinality({j \in 1..k : /\ room_defs[j].floor = room_defs[k].floor
                                             /\ room_defs[j].type # "staircase"})
        cell(k) == IF room_defs[k].type = "staircase" THEN stairCell(room_defs[k].floor)
                   ELSE (stairCell(room_defs[k].floor) + rank(k) * p.stride) % 6
        wd(k) == Max(1, Min(ROOM_SPECS(room_defs[k].type).max_width, cw))
        dp(k) == Min(Min(ROOM_SPECS(room_defs[k].type).max_width, third),
                     ROOM_SPECS(room_defs[k].type).max_area \div wd(k))
    IN  [k \in 1..Len(room_defs) |->
            [x |-> (cell(k) % 2) * cw, y |-> (cell(k) \div 2) * third,
             w |-> wd(k), d |-> dp(k)]]

\* the result of run i when the search settles on candidate q
RunResult(cfg, i, q) ==
    _solve_one(cfg, _build_room_list(cfg), StairZones[i], SolverIds[i],
               Candidate(cfg, _build_room_list(cfg), StairZones[i], q))

\* what one run can hand back to solve_layouts: nothing, or the layout of a candidate
RunResults(cfg, i) ==
    {NoLayout} \cup {RunResult(cfg, i, q) : q \in 0..MaxAnswer}

\* the results list of solve_layouts for the three run results
solve_layouts(l1, l2, l3) ==
    SelectSeq(<<l1, l2, l3>>, LAMBDA l : l # NoLayout)

\* the lists one call can return: the three runs search alike (one deterministic
\* worker), and each run on its own may end without a layout
SolveLists(cfg) ==
    UNION {{solve_layouts(l1, l2, l3) : l1 \in {NoLayout, RunResult(cfg, 1, q)},
                                        l2 \in {NoLayout, RunResult(cfg, 2, q)},
                                        l3 \in {NoLayout, RunResult(cfg, 3, q)}} :
           q \in 0..MaxAnswer}

(***************************************************************************)
(* generate (generator.py) as a state machine                              *)
(***************************************************************************)
VARIABLES
    cfg,                \* the PlotConfig of the request
    pc,                 \* position inside the running operation
    solver_layouts,     \* generate: solver_layouts / solve_layouts: results
    solver_raised,      \* solve_layouts raised into generate's try/except
    fn_idx,             \* index into generators = [layout_a .. layout_e]
    produced,           \* every layout built so far, with its compliance attached
    archetype_layouts,  \* generate: archetype_layouts
    all_layouts,        \* the list handed to rank_and_select, scores attached
    top_n,              \* rank_and_select: top_n
    result,             \* the returned list
    run_idx,            \* solve_layouts: index into zones
    run_log,            \* solve_layouts: how each finished run ended
    _layout_state,      \* rooms.py: the live layout of the session key, <<>> when absent
    _undo_stacks,       \* rooms.py: the snapshots of the session key, oldest first
    requests,           \* the requests the client of the session still sends, in order
    response,           \* what the last served request returned
    tasks,              \* requests running concurrently, each with its position
    history             \* the layouts before each acknowledged mutation not yet undone

engine_vars == <<pc, solver_layouts, solver_raised, fn_idx, produced,
                 archetype_layouts, all_layouts, top_n, result, run_idx, run_log>>

rooms_vars == <<_layout_state, _undo_stacks, requests, response, tasks, history>>

vars == <<cfg, pc, solver_layouts, solver_raised, fn_idx, produced,
          archetype_layouts, all_layouts, top_n, result, run_idx, run_log,
          _layout_state, _undo_stacks, requests, response, tasks, history>>

\* no response yet
NoResponse == [op |-> "", status |-> 0, success |-> FALSE, error |-> ""]

\* the module-level dictionaries of rooms.py are empty and no request is in flight
RoomsIdle ==
    /\ _layout_state = <<>>
    /\ _undo_stacks = <<>>
    /\ requests = <<>>
    /\ response = NoResponse
    /\ tasks = <<>>
    /\ history = <<>>

generators(i, c) ==
    CASE i = 1 -> layout_a(c)
      [] i = 2 -> layout_b(c)
      [] i = 3 -> layout_c(c)
      [] i = 4 -> layout_d(c)
      [] OTHER -> layout_e(c)

LayoutIds(layouts) == {layouts[k].id : k \in 1..Len(layouts)}

\* variant: the compliance verdict is not consulted
KeepWithoutVerdict(kept, layout, solver_ids) ==
    IF layout.id \notin solver_ids THEN Append(kept, layout) ELSE kept

\* "if layout.compliance.passed and layout.id not in solver_ids: append"
KeepIfPassed(kept, layout, solver_ids) ==
    IF layout.compliance.passed /\ layout.id \notin solver_ids
    THEN Append(kept, layout) ELSE kept

\* variant: Layout F is built whenever the plot area allows it
CourtyardAppliesAreaOnly(c) ==
    (c.plot_width \div 10) * (c.plot_length \div 10) >= 1500000

\* Layout F is attempted: plot area >= 150 sqm and layout_f does not return None
CourtyardApplies(c) ==
    /\ (c.plot_width \div 10) * (c.plot_length \div 10) >= 1500000
    /\ layout_f_feasible(c)

RECURSIVE KeepGenerators(_, _, _, _)
\* archetype_layouts after the loop over generators[i..5]
KeepGenerators(i, kept, c, solver_ids) ==
    IF i > 5 THEN kept
    ELSE KeepGenerators(i + 1, KeepIfPassed(kept, Checked(generators(i, c), c), solver_ids),
                        c, solver_ids)

\* generate as a function of the request and of what solve_layouts returned
generate(c, solver_result) ==
    LET solver_ids == LayoutIds(solver_result)
        kept == KeepGenerators(1, <<>>, c, solver_ids)
        archetypes == IF CourtyardApplies(c)
                      THEN KeepIfPassed(kept, Checked(layout_f(c), c), solver_ids)
                      ELSE kept
    IN  rank_and_select(solver_result \o archetypes, c, 3)

Init ==
    /\ cfg \in Configs
    /\ pc = "solver"
    /\ solver_layouts = <<>>
    /\ solver_raised = FALSE
    /\ fn_idx = 1
    /\ produced = <<>>
    /\ archetype_layouts = <<>>
    /\ all_layouts = <<>>
    /\ top_n = 3
    /\ result = <<>>
    /\ run_idx = 1
    /\ run_log = <<>>
    /\ RoomsIdle

\* solver_layouts = solve_layouts(cfg, ewt) returns a list
SolverReturns ==
    /\ pc = "solver"
    /\ \E results \in SolveLists(cfg) : solver_layouts' = results
    /\ pc' = "archetypes"
    /\ UNCHANGED rooms_vars
    /\ UNCHANGED <<cfg, solver_raised, fn_idx, produced, archetype_layouts,
                   all_layouts, top_n, result, run_idx, run_log>>

\* variant: no try/except around solve_layouts, the exception ends generate
SolverRaisesPropagates ==
    /\ pc = "solver"
    /\ solver_raised' = TRUE
    /\ result' = <<>>
    /\ pc' = "done"
    /\ UNCHANGED rooms_vars
    /\ UNCHANGED <<cfg, solver_layouts, fn_idx, produced, archetype_layouts,
                   all_layouts, top_n, run_idx, run_log>>

\* solve_layouts raises: "except Exception: pass", solver_layouts stays []
SolverRaises ==
    /\ pc = "solver"
    /\ solver_raised' = TRUE
    /\ solver_layouts' = <<>>
    /\ pc' = "archetypes"
    /\ UNCHANGED rooms_vars
    /\ UNCHANGED <<cfg, fn_idx, produced, archetype_layouts,
                   all_layouts, top_n, result, run_idx, run_log>>

ArchetypeStep ==
    /\ pc = "archetypes"
    /\ LET layout == Checked(generators(fn_idx, cfg), cfg)
       IN  /\ produced' = Append(produced, layout)
           /\ archetype_layouts' =
                  KeepIfPassed(archetype_layouts, layout, LayoutIds(solver_layouts))
    /\ fn_idx' = fn_idx + 1
    /\ pc' = IF fn_idx = 5 THEN "courtyard" ELSE "archetypes"
    /\ UNCHANGED rooms_vars
    /\ UNCHANGED <<cfg, solver_layouts, solver_raised, all_layouts, top_n, result,
                   run_idx, run_log>>

\* Layout F: "if plot_area >= 150" / "if lf is not None"
CourtyardStep ==
    /\ pc = "courtyard"
    /\ IF CourtyardApplies(cfg)
       THEN LET lf == Checked(layout_f(cfg), cfg)
            IN  /\ produced' = Append(produced, lf)
                /\ archetype_layouts' =
                       KeepIfPassed(archetype_layouts, lf, LayoutIds(solver_layouts))
       ELSE UNCHANGED <<produced, archetype_layouts>>
    /\ pc' = "rank"
    /\ UNCHANGED rooms_vars
    /\ UNCHANGED <<cfg, solver_layouts, solver_raised, fn_idx, all_layouts, top_n,
                   result, run_idx, run_log>>

\* return rank_and_select(solver_layouts + archetype_layouts, cfg, top_n=3)
RankStep ==
    /\ pc = "rank"
    /\ all_layouts' = ScoreAll(solver_layouts \o archetype_layouts, cfg)
    /\ result' = rank_and_select(solver_layouts \o archetype_layouts, cfg, top_n)
    /\ pc' = "done"
    /\ UNCHANGED rooms_vars
    /\ UNCHANGED <<cfg, solver_layouts, solver_raised, fn_idx, produced,
                   archetype_layouts, top_n, run_idx, run_log>>

Next ==
    \/ SolverReturns
    \/ SolverRaises
    \/ ArchetypeStep
    \/ CourtyardStep
    \/ RankStep

Spec == Init /\ [][Next]_vars

(***************************************************************************)
(* solve_layouts (solver.py) run by run                                    *)
(***************************************************************************)
\* requests used to exercise solve_layouts on its own
SolveConfigs ==
    {c \in Configs : c.toilets = 1 /\ c.num_bedrooms <= 2 /\ ~c.has_study /\ ~c.has_balcony}

InitSolve ==
    /\ cfg \in SolveConfigs
    /\ pc = "run"
    /\ solver_layouts = <<>>
    /\ solver_raised = FALSE
    /\ fn_idx = 1
    /\ produced = <<>>
    /\ archetype_layouts = <<>>
    /\ all_layouts = <<>>
    /\ top_n = 3
    /\ result = <<>>
    /\ run_idx = 1
    /\ run_log = <<>>
    /\ RoomsIdle

\* bookkeeping of "for zone, lid, lname in zones"
NextRun(outcome) ==
    /\ run_log' = Append(run_log, outcome)
    /\ run_idx' = run_idx + 1
    /\ pc' = IF run_idx = 3 THEN "return" ELSE "run"

\* variant: no try/except inside the loop, the exception ends solve_layouts
RunRaisesEndsLoop ==
    /\ pc = "run"
    /\ run_log' = Append(run_log, "raised")
    /\ run_idx' = run_idx + 1
    /\ solver_layouts' = <<>>
    /\ pc' = "return"
    /\ UNCHANGED rooms_vars
    /\ UNCHANGED <<cfg, solver_raised, fn_idx, produced,
                   archetype_layouts, all_layouts, top_n, result>>

\* _solve_one raises: "except Exception: pass"
RunRaises ==
    /\ pc = "run"
    /\ NextRun("raised")
    /\ UNCHANGED rooms_vars
    /\ UNCHANGED <<cfg, solver_layouts, solver_raised, fn_idx, produced,
                   archetype_layouts, all_layouts, top_n, result>>

\* solver.solve() ends with a status other than OPTIMAL / FEASIBLE (time budget spent)
RunTimesOut ==
    /\ pc = "run"
    /\ NextRun("timeout")
    /\ UNCHANGED rooms_vars
    /\ UNCHANGED <<cfg, solver_layouts, solver_raised, fn_idx, produced,
                   archetype_layouts, all_layouts, top_n, result>>

\* the search settles on candidate q
RunSolves ==
    /\ pc = "run"
    /\ \E q \in 0..MaxAnswer :
          LET room_defs == _build_room_list(cfg)
              a == Candidate(cfg, room_defs, StairZones[run_idx], q)
              found == /\ DomainsOk(cfg, room_defs)
                       /\ SolverConstraints(cfg, room_defs, a, StairZones[run_idx])
              built == BuildSolved(cfg, room_defs, SolverIds[run_idx], a)
              layout == _solve_one(cfg, room_defs, StairZones[run_idx], SolverIds[run_idx], a)
          IN  /\ produced' = IF found THEN Append(produced, built) ELSE produced
              /\ solver_layouts' = IF layout # NoLayout THEN Append(solver_layouts, layout)
                                   ELSE solver_layouts
              /\ NextRun(IF ~found THEN "infeasible"
                         ELSE IF layout = NoLayout THEN "non_compliant" ELSE "layout")
    /\ UNCHANGED rooms_vars
    /\ UNCHANGED <<cfg, solver_raised, fn_idx, archetype_layouts, all_layouts, top_n, result>>

\* return results
ReturnResults ==
    /\ pc = "return"
    /\ result' = solver_layouts
    /\ pc' = "returned"
    /\ UNCHANGED rooms_vars
    /\ UNCHANGED <<cfg, solver_layouts, solver_raised, fn_idx, produced,
                   archetype_layouts, all_layouts, top_n, run_idx, run_log>>

NextSolve ==
    \/ RunRaises
    \/ RunTimesOut
    \/ RunSolves
    \/ ReturnResults

SpecSolve == InitSolve /\ [][NextSolve]_vars

(***************************************************************************)
(* rank_and_select (scorer.py) on arbitrary input lists                    *)
(***************************************************************************)
MaxSolverPool == 1
MaxPool == 3
MaxTopN == 4
MaxVariant == 2

RankConfig == MkConfig(1, 2, 1, FALSE, FALSE, FALSE, FALSE, FALSE, "S")

ArchetypeIds == <<"A", "B", "C", "D", "E", "F">>

\* an input layout: the checked rooms of generator v + 1 under the given id
PoolLayout(lid, v) == [Checked(generators(v + 1, RankConfig), RankConfig) EXCEPT !.id = lid]

\* input lists of up to max layouts carrying the first ids of the given sequence
Pools(ids, max) ==
    UNION {{[k \in 1..n |-> PoolLayout(ids[k], f[k])] : f \in [1..n -> 0..MaxVariant]} :
           n \in 0..max}

InitRank ==
    /\ cfg = RankConfig
    /\ pc = "rank"
    /\ solver_layouts \in Pools(SolverIds, MaxSolverPool)
    /\ solver_raised = FALSE
    /\ fn_idx = 1
    /\ produced = <<>>
    /\ archetype_layouts \in Pools(ArchetypeIds, MaxPool)
    /\ all_layouts = <<>>
    /\ top_n \in 0..MaxTopN
    /\ result = <<>>
    /\ run_idx = 1
    /\ run_log = <<>>
    /\ RoomsIdle

NextRank == RankStep

SpecRank == InitRank /\ [][NextRank]_vars

(***************************************************************************)
(* check, check_vastu and score_layout on hand-built layouts, as the tests *)
(* of test_multi_floor.py, test_scorer.py and test_engine.py call them     *)
(***************************************************************************)
MaxFullRooms == 3
MaxStairStep == 2

\* Room(id, name, type, x, y, width, depth), lengths in mm
MkRoom(room_id, rtype, x, y, w, d) ==
    [id |-> room_id, type |-> rtype, x |-> x, y |-> y, w |-> w, d |-> d]

\* FloorPlan(floor, floor_type, rooms) of an optional floor
MkFloor(rooms) == [present |-> TRUE, rooms |-> rooms]

\* _make_layout of the tests: ground-floor type, optional second floor and basement
_make_layout(gf_rooms, ff_rooms, sf, bsmt, gf_type) ==
    [MkLayout("T", gf_rooms, ff_rooms) EXCEPT !.ground_floor_type = gf_type,
                                              !.second_floor = sf,
                                              !.basement_floor = bsmt]

\* the request the layouts are checked against: 12 x 15 m, setbacks 1.5 m
CheckConfig(ve, rs) == MkConfig(0, 2, 1, FALSE, FALSE, FALSE, FALSE, ve, rs)

\* a 2 x 3 m room whose centre lies in column col and row row of the 3 x 3 grid
\* over the plot (row 0 at the road); on the line between two cells when half is set
CellRoom(room_id, rtype, col, row, half) ==
    LET c == CheckConfig(FALSE, "S")
        x == c.setback_left + EWT + 70 + col * ((c.plot_width - 2400) \div 3)
        y == c.setback_front + EWT + 70 + row * ((c.plot_length - 2400) \div 3)
    IN  MkRoom(room_id, rtype, x, IF half THEN (c.plot_length \div 3) - 1500 ELSE y,
               2000, 3000)

\* layouts with a stilt or ground floor, a basement and a second floor
FloorCases ==
    {[cfg |-> CheckConfig(FALSE, "S"),
      layout |-> _make_layout(<<CellRoom("g", gt, 0, 0, FALSE)>>,
                              <<CellRoom("l", "living", 0, 0, FALSE)>>, sf, bf, ft)] :
        gt \in {"parking", "utility", "bedroom"},
        ft \in {"ground", "stilt"},
        sf \in {NoFloor, MkFloor(<<CellRoom("b3", "bedroom", 0, 0, FALSE)>>)},
        bf \in {NoFloor} \cup {MkFloor(<<CellRoom("b", bt, 0, 0, FALSE)>>) :
                               bt \in {"gym", "store_room", "utility", "bedroom"}}}

\* one ground-floor room of each type in each cell, and a toilet in the centre cell
ZoneCases ==
    {[cfg |-> CheckConfig(ve, rs),
      layout |-> _make_layout(<<CellRoom("r", rt, col, row, half),
                                CellRoom("t", "toilet", 1, 1, FALSE)>>,
                              <<>>, NoFloor, NoFloor, "ground")] :
        rt \in {"kitchen", "toilet", "bedroom", "pooja", "living", "staircase"},
        col \in 0..2, row \in 0..2, half \in BOOLEAN, ve \in BOOLEAN, rs \in RoadSides}

\* a kitchen with a neighbour at a gap to its right, on the ground floor or (up)
\* at the same place on the first floor, and n rooms of the whole buildable plate
\* on the first floor
AdjacencyCases ==
    {[cfg |-> CheckConfig(FALSE, "S"),
      layout |-> _make_layout(
          <<MkRoom("k", "kitchen", 1800, 1800, 3000, 3000)>>
          \o (IF up THEN <<>> ELSE <<MkRoom("n", nt, 4800 + gap, 1800, 2000, 3000)>>),
          (IF up THEN <<MkRoom("n", nt, 4800 + gap, 1800, 2000, 3000)>> ELSE <<>>)
          \o [k \in 1..n |-> MkRoom("f", "living", 1730, 1730,
                                    PlateW(CheckConfig(FALSE, "S")),
                                    PlateD(CheckConfig(FALSE, "S")))],
          NoFloor, NoFloor, "ground")] :
        nt \in {"utility", "dining", "toilet", "living"},
        gap \in {0, IWT, 2 * IWT},
        n \in 0..MaxFullRooms,
        up \in BOOLEAN}

\* a staircase on each floor, width and depth around min_stair_width
StairDims == {MinStairWidth - 50 + 50 * k : k \in 0..MaxStairStep}

StairCases ==
    {[cfg |-> CheckConfig(FALSE, "S"),
      layout |-> _make_layout(<<MkRoom("gf_stair", "staircase", 1800, 1800, w1, d1)>>,
                              <<MkRoom("ff_stair", "staircase", 1800, 1800, w2, d2)>>,
                              NoFloor, NoFloor, "ground")] :
        w1 \in StairDims, d1 \in StairDims, w2 \in StairDims, d2 \in StairDims}

\* requests of several cities and road widths on the 12 x 15 m plot with
\* setbacks of 1.5 m and of 0.5 m
Cities == {"other", " OTHER", "bangalore", " Bangalore ", "BANGALORE",
           "chennai", "Chennai ", "Atlantis"}
RoadWidths == {6000, 9000, 12000, 60000, 75000}

FarCases ==
    {[cfg |-> [MkConfig(i, 2, 1, FALSE, FALSE, FALSE, FALSE, FALSE, "S")
                   EXCEPT !.city = city, !.road_width_m = rw],
      layout |-> _make_layout(<<CellRoom("l", "living", 1, 1, FALSE)>>, <<>>,
                              NoFloor, NoFloor, "ground")] :
        i \in {0, 6}, city \in Cities, rw \in RoadWidths}

CheckCases == FloorCases \cup ZoneCases \cup AdjacencyCases \cup StairCases \cup FarCases

InitCheck ==
    /\ \E case \in CheckCases :
          /\ cfg = case.cfg
          /\ produced = <<case.layout>>
    /\ pc = "check"
    /\ solver_layouts = <<>>
    /\ solver_raised = FALSE
    /\ fn_idx = 1
    /\ archetype_layouts = <<>>
    /\ all_layouts = <<>>
    /\ top_n = 3
    /\ result = <<>>
    /\ run_idx = 1
    /\ run_log = <<>>
    /\ RoomsIdle

\* layout.compliance = check(layout, cfg, rules), then the Vastu merge
CheckLayout ==
    /\ pc = "check"
    /\ produced' = <<Checked(produced[1], cfg)>>
    /\ pc' = "score"
    /\ UNCHANGED rooms_vars
    /\ UNCHANGED <<cfg, solver_layouts, solver_raised, fn_idx, archetype_layouts,
                   all_layouts, top_n, result, run_idx, run_log>>

\* layout.score = score_layout(layout, cfg)
ScoreLayout ==
    /\ pc = "score"
    /\ all_layouts' = ScoreAll(produced, cfg)
    /\ pc' = "scored"
    /\ UNCHANGED rooms_vars
    /\ UNCHANGED <<cfg, solver_layouts, solver_raised, fn_idx, produced,
                   archetype_layouts, top_n, result, run_idx, run_log>>

NextCheck == CheckLayout \/ ScoreLayout

SpecCheck == InitCheck /\ [][NextCheck]_vars

(***************************************************************************)
(* Properties                                                              *)
(***************************************************************************)
Rooms(layout) == layout.ground_floor \o layout.first_floor

Staircases(rooms) == SelectSeq(rooms, LAMBDA r : r.type = "staircase")

HasKind(msgs, kinds) == \E m \in 1..Len(msgs) : msgs[m].kind \in kinds

\* two rooms overlap by positive area (touching edges do not count)
Overlap(a, b) ==
    /\ Min(a.x + a.w, b.x + b.w) > Max(a.x, b.x)
    /\ Min(a.y + a.d, b.y + b.d) > Max(a.y, b.y)

FloorDisjoint(rooms) ==
    \A i, j \in 1..Len(rooms) : i < j => ~Overlap(rooms[i], rooms[j])

\* C1: every layout in the list generate returns has compliance.passed = TRUE and
\* an empty violations list, whether it came from the solver or from an archetype
\* and whether or not Vastu checking is enabled.
C1_ReturnedLayoutsPass ==
    \A k \in 1..Len(result) :
        /\ result[k].compliance.passed
        /\ result[k].compliance.violations = <<>>

\* generate returned a solver layout and an archetype layout with Vastu enabled,
\* after rejecting a non-compliant archetype
C1_Witness ==
    /\ pc = "done"
    /\ cfg.vastu_enabled
    /\ \E k \in 1..Len(result) : result[k].id \in SeqToSet(SolverIds)
    /\ \E k \in 1..Len(result) : result[k].id \notin SeqToSet(SolverIds)
    /\ \E k \in 1..Len(produced) : ~produced[k].compliance.passed

\* C2: in every returned layout no two rooms of one floor overlap by positive area.
C2_NoOverlapReturned ==
    \A k \in 1..Len(result) :
        /\ FloorDisjoint(result[k].ground_floor)
        /\ FloorDisjoint(result[k].first_floor)

\* C3: no room of a returned layout has zero or negative width or depth.
C3_PositiveExtentReturned ==
    \A k \in 1..Len(result) :
        \A i \in 1..Len(Rooms(result[k])) :
            Rooms(result[k])[i].w > 0 /\ Rooms(result[k])[i].d > 0

\* C4: for the result of check on a layout, and for the compliance a layout carries
\* after the Vastu merge, passed is TRUE exactly when violations is empty, however
\* many warnings there are.
PassedIffNoViolations(c) == c.passed <=> (c.violations = <<>>)

C4_PassedIffNoViolations ==
    /\ \A k \in 1..Len(produced) : PassedIffNoViolations(produced[k].compliance)
    /\ \A k \in 1..Len(solver_layouts) : PassedIffNoViolations(solver_layouts[k].compliance)
    /\ produced # <<>> =>
          PassedIffNoViolations(check(produced[Len(produced)], cfg))

\* a layout that check alone passes, with warnings, and that the Vastu merge fails
C4_Witness ==
    /\ cfg.vastu_enabled
    /\ produced # <<>>
    /\ LET layout == produced[Len(produced)]
           c == check(layout, cfg)
       IN  /\ c.passed
           /\ c.warnings # <<>>
           /\ ~layout.compliance.passed
           /\ layout.compliance.violations # <<>>
    /\ \E k \in 1..Len(produced) :
          produced[k].compliance.passed /\ produced[k].compliance.warnings # <<>>

\* C5: every room of every returned layout lies inside the buildable rectangle
\* (setback plus external wall) with at most 5 mm of tolerance.
InsideBuildable(room, c) ==
    /\ room.x >= c.setback_left + EWT - 5
    /\ room.x + room.w <= c.plot_width - c.setback_right - EWT + 5
    /\ room.y >= c.setback_front + EWT - 5
    /\ room.y + room.d <= c.plot_length - c.setback_rear - EWT + 5

C5_ReturnedInsideBuildable ==
    \A k \in 1..Len(result) :
        \A i \in 1..Len(Rooms(result[k])) : InsideBuildable(Rooms(result[k])[i], cfg)

\* generate returned layouts after rejecting one whose rooms cross the boundary
C5_Witness ==
    /\ pc = "done"
    /\ result # <<>>
    /\ \E k \in 1..Len(produced) :
          HasKind(produced[k].compliance.violations,
                  {"outside_horizontal", "outside_vertical"})

\* C6: every layout built by an archetype generator or by a solver run has a
\* staircase on both floors, and the ground-floor staircase has the x, y, width
\* and depth of the first-floor staircase (within 1 cm).
StairsAligned(layout) ==
    /\ Staircases(layout.ground_floor) # <<>>
    /\ Staircases(layout.first_floor) # <<>>
    /\ LET gs == Staircases(layout.ground_floor)[1]
           fs == Staircases(layout.first_floor)[1]
       IN  /\ Abs(gs.x - fs.x) < 10
           /\ Abs(gs.y - fs.y) < 10
           /\ Abs(gs.w - fs.w) < 10
           /\ Abs(gs.d - fs.d) < 10

C6_StaircaseAligned ==
    /\ \A k \in 1..Len(produced) : StairsAligned(produced[k])
    /\ \A k \in 1..Len(solver_layouts) : StairsAligned(solver_layouts[k])

\* all six archetypes and three solver runs have produced a layout
C6_Witness ==
    /\ Len(produced) = 6
    /\ Len(solver_layouts) = 3

\* C7: when solve_layouts raises, generate still returns, and returns exactly what
\* it returns when the solver hands back an empty list: the compliant archetype
\* layouts, scored and ranked.
C7_SolverExceptionSwallowed ==
    (pc = "done" /\ solver_layouts = <<>>) =>
        /\ result = generate(cfg, <<>>)
        /\ result = rank_and_select(SelectSeq(produced, LAMBDA l : l.compliance.passed), cfg, 3)

\* the solver raised on a request it can solve, and generate returned archetypes
C7_Witness ==
    /\ pc = "done"
    /\ solver_raised
    /\ result # <<>>
    /\ SolveLists(cfg) # {<<>>}

\* C8: solve_layouts makes the front, mid and rear run in that order and returns
\* 0 to 3 layouts whose ids are a subsequence of S1, S2, S3; a run that is
\* infeasible, times out, yields a non-compliant layout or raises contributes
\* nothing, and the layout of every other run is what that run alone yields.
IdIndex(ids, lid) == CHOOSE k \in 1..Len(ids) : ids[k] = lid

InZone(layout, i) ==
    LET gs == Staircases(layout.ground_floor)[1]
        third == PlateD(cfg) \div 3
        top == cfg.setback_front + EWT + (i - 1) * third
    IN  gs.y >= top /\ (i < 3 => gs.y + gs.d <= top + third)

C8_SolveLayoutsRuns ==
    /\ Len(run_log) = run_idx - 1
    /\ Len(run_log) <= 3
    /\ Len(solver_layouts) <= Len(run_log)
    /\ \A k \in 1..Len(solver_layouts) : solver_layouts[k].id \in SeqToSet(SolverIds)
    /\ \A i, j \in 1..Len(solver_layouts) :
          i < j => IdIndex(SolverIds, solver_layouts[i].id) < IdIndex(SolverIds, solver_layouts[j].id)
    /\ \A k \in 1..Len(run_log) :
          IF run_log[k] = "layout"
          THEN \E m \in 1..Len(solver_layouts) :
                  /\ solver_layouts[m].id = SolverIds[k]
                  /\ solver_layouts[m] \in RunResults(cfg, k)
                  /\ InZone(solver_layouts[m], k)
          ELSE SolverIds[k] \notin LayoutIds(solver_layouts)
    /\ pc = "returned" => (Len(run_log) = 3 /\ result = solver_layouts)

\* the first run raised, the second gave a non-compliant layout, the third a layout
C8_Witness ==
    /\ pc = "returned"
    /\ run_log = <<"raised", "non_compliant", "layout">>
    /\ LayoutIds(result) = {"S3"}

\* C9: rank_and_select attaches a score to every input layout and returns
\* min(top_n, len(layouts)) of them in non-increasing order of score.total, and no
\* layout it leaves out has a strictly higher total than one it returns.
C9_RankAndSelect ==
    pc = "done" =>
        LET input == solver_layouts \o archetype_layouts
        IN  /\ Len(all_layouts) = Len(input)
            /\ \A k \in 1..Len(input) :
                  /\ all_layouts[k].id = input[k].id
                  /\ all_layouts[k].score # NoScore
                  /\ all_layouts[k].score.total \in 0..1000
            /\ Len(result) = Min(top_n, Len(input))
            /\ \A k \in 1..Len(result) : result[k] \in SeqToSet(all_layouts)
            /\ \A i, j \in 1..Len(result) :
                  i < j => /\ result[i].id # result[j].id
                           /\ result[i].score.total >= result[j].score.total
            /\ \A k \in 1..Len(all_layouts) :
                  all_layouts[k].id \notin LayoutIds(result) =>
                      \A i \in 1..Len(result) :
                          all_layouts[k].score.total <= result[i].score.total

\* the sort moved a later input to the front and a lower-scoring input was cut
C9_Witness ==
    /\ pc = "done"
    /\ top_n >= 2
    /\ Len(all_layouts) > top_n
    /\ result[1].id # all_layouts[1].id
    /\ result[1].score.total > result[top_n].score.total
    /\ \E k \in 1..Len(all_layouts) :
          /\ all_layouts[k].id \notin LayoutIds(result)
          /\ all_layouts[k].score.total < result[top_n].score.total

\* C10: candidates are ranked in generation order S1, S2, S3, A .. F, and among
\* candidates of equal score.total the earlier generated comes first; when more
\* tie than fit, the first generated are the ones returned.
GenerationOrder == <<"S1", "S2", "S3", "A", "B", "C", "D", "E", "F">>

C10_StableOrder ==
    pc = "done" =>
        /\ \A i, j \in 1..Len(all_layouts) :
              i < j => IdIndex(GenerationOrder, all_layouts[i].id)
                       < IdIndex(GenerationOrder, all_layouts[j].id)
        /\ \A i, j \in 1..Len(result) :
              (i < j /\ result[i].score.total = result[j].score.total) =>
                  IdIndex(GenerationOrder, result[i].id) < IdIndex(GenerationOrder, result[j].id)
        /\ \A i \in 1..Len(result) : \A k \in 1..Len(all_layouts) :
              (/\ all_layouts[k].id \notin LayoutIds(result)
               /\ all_layouts[k].score.total = result[i].score.total) =>
                  IdIndex(GenerationOrder, result[i].id)
                  < IdIndex(GenerationOrder, all_layouts[k].id)

\* four candidates tie, three are asked for: the first three generated come back
C10_Witness ==
    /\ pc = "done"
    /\ top_n = 3
    /\ Len(all_layouts) = 4
    /\ \A k \in 1..4 : all_layouts[k].score.total = all_layouts[1].score.total
    /\ [k \in 1..3 |-> result[k].id] = <<"S1", "A", "B">>

\* C11: when the PlotConfig alone triggers a hard violation (floor coverage above
\* max_floor_coverage_pct, or plot length or width below the minimum), generate
\* ends without an exception and returns an empty list: no solver layout and no
\* archetype layout is kept.
CoveragePctAbove(c, pct) ==
    LET bw == (c.plot_width - c.setback_left - c.setback_right) \div 10
        bd == (c.plot_length - c.setback_front - c.setback_rear) \div 10
        pw == c.plot_width \div 10
        pl == c.plot_length \div 10
    IN  100 * (bw * bd) > pct * (pw * pl)

HardPlotViolation(c) ==
    \/ CoveragePctAbove(c, MaxFloorCoveragePct)
    \/ c.plot_length < MinPlotLength
    \/ c.plot_width < MinPlotWidth

C11_HardViolationReturnsEmpty ==
    (pc = "done" /\ HardPlotViolation(cfg)) =>
        /\ result = <<>>
        /\ solver_layouts = <<>>
        /\ archetype_layouts = <<>>
        /\ Len(produced) >= 5

\* generate ended with nothing on a plot where a layout's only violation is the
\* floor coverage
C11_Witness ==
    /\ pc = "done"
    /\ result = <<>>
    /\ Len(produced) >= 5
    /\ \E k \in 1..Len(produced) :
          produced[k].compliance.violations = <<Msg("floor_coverage", "")>>

\* the layout check was called on, with its compliance attached
CheckedLayout == produced[1]

\* C12: check reports a "Stilt floor violation" (and passed = FALSE) for a layout
\* whose stilt ground floor holds a room that is not parking or utility, and a
\* "Basement violation" (and passed = FALSE) for a layout whose basement holds a
\* room that is not of a gym / store / utility class; a stilt floor with only
\* parking and a basement with only a gym produce no such violation.
C12_StiltBasementViolations ==
    pc \in {"score", "scored"} =>
        LET l == CheckedLayout
            gf == l.ground_floor
            bf == l.basement_floor.rooms
            stilt_misuse == /\ l.ground_floor_type = "stilt"
                            /\ \E k \in 1..Len(gf) : gf[k].type \notin {"parking", "utility"}
            basement_misuse == /\ l.basement_floor.present
                               /\ \E k \in 1..Len(bf) :
                                     bf[k].type \notin {"gym", "store_room", "utility"}
        IN  /\ stilt_misuse =>
                (HasKind(l.compliance.violations, {"stilt_floor"}) /\ ~l.compliance.passed)
            /\ basement_misuse =>
                (HasKind(l.compliance.violations, {"basement"}) /\ ~l.compliance.passed)
            /\ (l.ground_floor_type = "stilt" /\ ~stilt_misuse) =>
                ~HasKind(l.compliance.violations, {"stilt_floor"})
            /\ (l.basement_floor.present /\ ~basement_misuse) =>
                ~HasKind(l.compliance.violations, {"basement"})

\* C13: check adds an advisory warning recommending structural engineer review to
\* every layout with a second floor, and the warning does not change passed.
C13_StructuralReviewWarning ==
    pc \in {"score", "scored"} =>
        LET l == CheckedLayout
        IN  /\ l.second_floor.present =>
                  HasKind(l.compliance.warnings, {"structural_review"})
            /\ l.compliance.passed = (l.compliance.violations = <<>>)

\* C14: with cfg.vastu_enabled, a layout (archetype or solver) for which
\* check_vastu reports a violation has compliance.passed = FALSE after the merge and
\* is never in generate's result, even if the building-code check alone found no
\* violation; with vastu_enabled false no directional message is ever added.
VastuKinds == {"vastu_prohibited", "vastu_inauspicious", "vastu_kitchen",
               "vastu_pooja", "vastu_master"}

VastuViolated(layout) ==
    \E k \in 1..Len(layout.ground_floor) :
        layout.ground_floor[k].type
            \in VASTU_RULES(RoomZone(layout.ground_floor[k], cfg, cfg.road_side)).prohibit

NoDirectionalMessage(layout) ==
    /\ ~HasKind(layout.compliance.violations, VastuKinds)
    /\ ~HasKind(layout.compliance.warnings, VastuKinds)

C14_VastuViolationsReject ==
    /\ cfg.vastu_enabled =>
          /\ \A k \in 1..Len(produced) :
                VastuViolated(produced[k]) =>
                    /\ ~produced[k].compliance.passed
                    /\ \A j \in 1..Len(result) : result[j].id # produced[k].id
          /\ \A k \in 1..Len(solver_layouts) : ~VastuViolated(solver_layouts[k])
          /\ \A k \in 1..Len(result) : ~VastuViolated(result[k])
    /\ ~cfg.vastu_enabled =>
          /\ \A k \in 1..Len(produced) : NoDirectionalMessage(produced[k])
          /\ \A k \in 1..Len(solver_layouts) : NoDirectionalMessage(solver_layouts[k])
          /\ \A k \in 1..Len(result) : NoDirectionalMessage(result[k])

\* generate returned layouts after rejecting an archetype that passes the building
\* code check but has a room in a prohibited zone
C14_Witness ==
    /\ pc = "done"
    /\ cfg.vastu_enabled
    /\ result # <<>>
    /\ \E k \in 1..Len(produced) :
          /\ check(produced[k], cfg).passed
          /\ VastuViolated(produced[k])
          /\ produced[k].id \notin LayoutIds(result)

\* C15: for each road side R the zone grid is the compass turned so that the road
\* side is at the front: a ground-floor room whose centre is in the front third of
\* the plot depth and the middle third of the width is in zone R, and one in the
\* rear third and the middle third of the width is in the opposite zone.
OppositeSide(r) ==
    CASE r = "S" -> "N" [] r = "N" -> "S" [] r = "E" -> "W" [] r = "W" -> "E"

C15_ZoneGridFacesRoad ==
    (pc \in {"score", "scored"} /\ cfg.vastu_enabled) =>
        \A k \in 1..Len(CheckedLayout.ground_floor) :
            LET room == CheckedLayout.ground_floor[k]
                cx2 == 2 * room.x + room.w
                cy2 == 2 * room.y + room.d
                middle == 3 * cx2 >= 2 * cfg.plot_width /\ 3 * cx2 < 4 * cfg.plot_width
                front == 3 * cy2 < 2 * cfg.plot_length
                rear == 3 * cy2 > 4 * cfg.plot_length
                zone == RoomZone(room, cfg, cfg.road_side)
            IN  /\ (middle /\ front) => zone = cfg.road_side
                /\ (middle /\ rear) => zone = OppositeSide(cfg.road_side)

\* C16: with directional checking enabled each ground-floor room is mapped by its
\* centre to exactly one of the nine zones, and the generic zone table yields
\* exactly one outcome for it: a violation if its type is in the zone's prohibit
\* list, otherwise a warning if its type is in the avoid list, otherwise nothing;
\* with the road facing South a kitchen centred in the NE zone (rear right) gets a
\* violation saying the type is prohibited there.
Zones == {"NW", "N", "NE", "W", "C", "E", "SW", "S", "SE"}

CountMsg(msgs, kind, room_id) ==
    Cardinality({k \in 1..Len(msgs) : msgs[k] = Msg(kind, room_id)})

C16_OneOutcomePerRoom ==
    (pc \in {"score", "scored"} /\ cfg.vastu_enabled) =>
        \A k \in 1..Len(CheckedLayout.ground_floor) :
            LET room == CheckedLayout.ground_floor[k]
                zone == RoomZone(room, cfg, cfg.road_side)
                nv == CountMsg(CheckedLayout.compliance.violations,
                               "vastu_prohibited", room.id)
                nw == CountMsg(CheckedLayout.compliance.warnings,
                               "vastu_inauspicious", room.id)
                rear_right == /\ 3 * (2 * room.x + room.w) >= 4 * cfg.plot_width
                              /\ 3 * (2 * room.y + room.d) > 4 * cfg.plot_length
            IN  /\ zone \in Zones
                /\ IF room.type \in VASTU_RULES(zone).prohibit THEN nv = 1 /\ nw = 0
                   ELSE IF room.type \in VASTU_RULES(zone).avoid THEN nv = 0 /\ nw = 1
                   ELSE nv = 0 /\ nw = 0
                /\ (cfg.road_side = "S" /\ room.type = "kitchen" /\ rear_right) =>
                       (zone = "NE" /\ nv = 1)

\* road facing South, a kitchen centred in the NE zone was checked and reported
C16_Witness ==
    /\ pc = "score"
    /\ cfg.vastu_enabled
    /\ cfg.road_side = "S"
    /\ \E k \in 1..Len(CheckedLayout.ground_floor) :
          LET room == CheckedLayout.ground_floor[k]
          IN  /\ room.type = "kitchen"
              /\ RoomZone(room, cfg, "S") = "NE"
              /\ CountMsg(CheckedLayout.compliance.violations,
                          "vastu_prohibited", room.id) = 1
    /\ ~CheckedLayout.compliance.passed

\* the layout score_layout was called on, with its score attached
ScoredLayout == all_layouts[1]

\* C17: the scorer's adjacency sub-score awards points for exactly the room-type
\* pairs, with the point values, of the solver's objective table; a layout in which
\* a pair of the table shares a wall (the kitchen with a utility room, for one)
\* earns adjacency points.
C17_AdjacencyTablesAgree ==
    pc = "scored" =>
        /\ SeqToSet(_ADJACENCY_PAIRS) = SeqToSet(solver_ADJACENCY_PAIRS)
        /\ LET rooms == AllRooms(ScoredLayout)
           IN  \A p \in SeqToSet(solver_ADJACENCY_PAIRS) :
                   (\E i, j \in 1..Len(rooms) :
                       /\ rooms[i].type = p.t1
                       /\ rooms[j].type = p.t2
                       /\ _shares_wall(rooms[i], rooms[j]))
                   => ScoredLayout.score.adjacency > 0

\* C18: score_layout gives total = 0.25 natural_light + 0.25 adjacency
\* + 0.20 aspect_ratio + 0.15 circulation + 0.15 vastu, and each of the five
\* sub-scores and the total lies in 0 .. 100.  Scores are in tenths; the total is
\* rounded from the unrounded sub-scores, so it agrees with the weighted sum of the
\* rounded ones within 0.1.
InScoreRange(v) == 0 <= v /\ v <= 1000

CourtyardCandidate == \E k \in 1..Len(produced) : produced[k].id = "F"

PlotAreaAtLeast150 == (cfg.plot_width \div 10) * (cfg.plot_length \div 10) >= 1500000

PlateAtLeast8By10 ==
    /\ _floor_plate(cfg).width >= ToU(8000)
    /\ _floor_plate(cfg).depth >= ToU(10000)

C19_CourtyardCondition ==
    pc \in {"rank", "done"} =>
        /\ CourtyardCandidate <=> (PlotAreaAtLeast150 /\ PlateAtLeast8By10)
        /\ Len(produced) = IF CourtyardCandidate THEN 6 ELSE 5
        /\ \A i \in 1..5 : produced[i] = Checked(generators(i, cfg), cfg)
        /\ \A i \in 1..5 : produced[i].id = ArchetypeIds[i]

\* a plot of 150 sqm or more whose floor plate is too narrow: F is absent and
\* other archetypes are returned
C19_Witness ==
    /\ pc = "done"
    /\ PlotAreaAtLeast150
    /\ ~PlateAtLeast8By10
    /\ ~CourtyardCandidate
    /\ result # <<>>

\* C20: check compares min_stair_width with both dimensions of each staircase on
\* the ground and first floor: a staircase is accepted when its width or its depth
\* is at least the minimum, and a violation is recorded exactly when both are
\* below it.
C20_StairWidthBothDimensions ==
    pc \in {"score", "scored"} =>
        LET rooms == AllRooms(CheckedLayout)
        IN  \A k \in 1..Len(rooms) :
                rooms[k].type = "staircase" =>
                    (CountMsg(CheckedLayout.compliance.violations,
                              "stair_width", rooms[k].id) = 1
                     <=> (rooms[k].w < MinStairWidth /\ rooms[k].d < MinStairWidth))
                    /\ CountMsg(CheckedLayout.compliance.violations,
                                "stair_width", rooms[k].id) <= 1

\* consequently every staircase of a returned layout is wide or deep enough
C20_ReturnedStairs ==
    \A k \in 1..Len(result) :
        \A i \in 1..Len(Rooms(result[k])) :
            Rooms(result[k])[i].type = "staircase" =>
                (Rooms(result[k])[i].w >= MinStairWidth
                 \/ Rooms(result[k])[i].d >= MinStairWidth)

\* a ground-floor staircase too narrow but deep enough was accepted while the
\* first-floor staircase, below the minimum both ways, was reported
C20_Witness ==
    /\ pc = "score"
    /\ \E k \in 1..Len(CheckedLayout.ground_floor) :
          LET r == CheckedLayout.ground_floor[k]
          IN  /\ r.type = "staircase"
              /\ r.w < MinStairWidth
              /\ r.d >= MinStairWidth
              /\ CountMsg(CheckedLayout.compliance.violations, "stair_width", r.id) = 0
    /\ \E k \in 1..Len(CheckedLayout.first_floor) :
          LET r == CheckedLayout.first_floor[k]
          IN  /\ r.type = "staircase"
              /\ r.w < MinStairWidth
              /\ r.d < MinStairWidth
              /\ CountMsg(CheckedLayout.compliance.violations, "stair_width", r.id) = 1

(***************************************************************************)
(* C21: FAR limit by city and road width                                   *)
(***************************************************************************)
\* the rows of the table the claim selects: the city's own when the code
\* (lower case, trimmed) is in the city rules, the table of "other" otherwise
ClaimedFarTable(c) ==
    IF CityKey(c.city) \in CityCodes THEN CityFarTable(CityKey(c.city))
    ELSE CityFarTable("other")

ClaimedFarLimit(c) ==
    LET table == ClaimedFarTable(c)
    IN  IF \A k \in 1..Len(table) : table[k].road_width_max < c.road_width_m
        THEN DefaultFar
        ELSE table[CHOOSE k \in 1..Len(table) :
                       /\ table[k].road_width_max >= c.road_width_m
                       /\ \A j \in 1..(k - 1) : table[j].road_width_max < c.road_width_m].far

\* built area of two floors over the plot area exceeds limit + 0.01
FarExceeds(c, limit) ==
    LET footprint == (c.plot_width - c.setback_left - c.setback_right)
                     * (c.plot_length - c.setback_front - c.setback_rear)
    IN  (footprint \div 100) * 200 > (limit + 1) * ((c.plot_width * c.plot_length) \div 100)

\* C21: the FAR limit applied by check is the far of the first row whose
\* road_width_max_m is at least the road width in the table of the city
\* (case-insensitive, trimmed; "other" for a city without a table) and
\* default_far when no row matches; exceeding it adds a warning, never a
\* violation, and passed stays the emptiness of the violations.
C21_FarLimitLookup ==
    pc # "check" =>
        /\ HasKind(CheckedLayout.compliance.warnings, {"far"})
               <=> FarExceeds(cfg, ClaimedFarLimit(cfg))
        /\ ~HasKind(CheckedLayout.compliance.violations, {"far"})
        /\ CheckedLayout.compliance.passed
               <=> (CheckedLayout.compliance.violations = <<>>)

\* a request for "Chennai " on a 9 m road: FAR 1.20 exceeds 1.00, warned and passed
C21_Witness ==
    /\ pc = "score"
    /\ cfg.city = "Chennai "
    /\ cfg.road_width_m = 9000
    /\ HasKind(CheckedLayout.compliance.warnings, {"far"})
    /\ CheckedLayout.compliance.passed

\* a road wider than every row: default_far applies and is exceeded
C21_WitnessDefault ==
    /\ pc = "score"
    /\ cfg.road_width_m = 75000
    /\ HasKind(CheckedLayout.compliance.warnings, {"far"})

(***************************************************************************)
(* C28, C29: bedrooms and room ids of the built layouts                    *)
(***************************************************************************)
BedroomCount(layout) ==
    Cardinality({k \in 1..Len(AllRooms(layout)) : AllRooms(layout)[k].type = "bedroom"})

\* C28: every layout built by an archetype generator has as many rooms of type
\* bedroom on the ground and first floor together as the request's num_bedrooms.
C28_BedroomCountMatches ==
    \A k \in 1..Len(produced) : BedroomCount(produced[k]) = cfg.num_bedrooms

\* the archetype generators other than E build the requested number up to three
C28_BedroomCountUpToThree ==
    \A k \in 1..Len(produced) :
        (cfg.num_bedrooms <= 3 /\ produced[k].id # "E")
            => BedroomCount(produced[k]) = cfg.num_bedrooms

DistinctRoomIds(layout) ==
    \A i, j \in 1..Len(AllRooms(layout)) :
        i # j => AllRooms(layout)[i].id # AllRooms(layout)[j].id

\* C29: within one layout built by an archetype generator or by a solver run
\* the room ids are pairwise distinct over all floors.
C29_RoomIdsDistinct ==
    /\ \A k \in 1..Len(produced) : DistinctRoomIds(produced[k])
    /\ \A k \in 1..Len(solver_layouts) : DistinctRoomIds(solver_layouts[k])

\* the solver's layouts and the archetypes other than E have distinct ids
C29_RoomIdsDistinctExceptE ==
    /\ \A k \in 1..Len(produced) : produced[k].id # "E" => DistinctRoomIds(produced[k])
    /\ \A k \in 1..Len(solver_layouts) : DistinctRoomIds(solver_layouts[k])

(***************************************************************************)
(* C30: adjacency pairs are counted on one floor, once per pair            *)
(***************************************************************************)
\* a room of type t1 and a room of type t2 of one floor share a wall
SharesWallOn(rooms, t1, t2) ==
    \E i, j \in 1..Len(rooms) :
        /\ rooms[i].type = t1
        /\ rooms[j].type = t2
        /\ _shares_wall(rooms[i], rooms[j])

\* the points of the pairs satisfied on the ground floor or on the first floor,
\* each pair once
SameFloorPoints(layout) ==
    SumSeq([k \in 1..Len(_ADJACENCY_PAIRS) |->
               IF \/ SharesWallOn(layout.ground_floor, _ADJACENCY_PAIRS[k].t1,
                                  _ADJACENCY_PAIRS[k].t2)
                  \/ SharesWallOn(layout.first_floor, _ADJACENCY_PAIRS[k].t1,
                                  _ADJACENCY_PAIRS[k].t2)
               THEN _ADJACENCY_PAIRS[k].pts ELSE 0])

\* C30: the adjacency sub-score is earned by the preference pairs whose two room
\* types share a wall on the same floor, each pair at most once; a ground-floor
\* room and a first-floor room whose rectangles abut earn nothing.
C30_AdjacencySameFloor ==
    pc = "scored" =>
        ScoredLayout.score.adjacency
            = RoundDiv(Min(1000000, (1000000 * SameFloorPoints(ScoredLayout))
                                        \div _MAX_ADJACENCY), 1000)

\* each pair contributes its points at most once, whatever the number of rooms
C30_PairCountedOnce ==
    pc = "scored" =>
        LET rooms == AllRooms(ScoredLayout)
            pts == SumSeq([k \in 1..Len(_ADJACENCY_PAIRS) |->
                      IF SharesWallOn(rooms, _ADJACENCY_PAIRS[k].t1, _ADJACENCY_PAIRS[k].t2)
                      THEN _ADJACENCY_PAIRS[k].pts ELSE 0])
        IN  ScoredLayout.score.adjacency
                = RoundDiv(Min(1000000, (1000000 * pts) \div _MAX_ADJACENCY), 1000)

(***************************************************************************)
(* Room operations of a chat session (api/routes/rooms.py)                 *)
(***************************************************************************)
MAX_UNDO == 10

\* variant: a deque without maxlen
_push_undo_unbounded(stack, state) == Append(stack, state)

\* deque(maxlen=MAX_UNDO).append(json.dumps(state)): the oldest entry falls out
_push_undo(stack, state) ==
    IF Len(stack) >= MAX_UNDO THEN Append(Tail(stack), state) ELSE Append(stack, state)

\* variant: the oldest snapshot is taken
_pop_undo_oldest(stack) == [prev |-> stack[1], stack |-> Tail(stack)]

\* stack.pop() of a non-empty deque: the newest snapshot and the rest
_pop_undo(stack) ==
    [prev |-> stack[Len(stack)], stack |-> SubSeq(stack, 1, Len(stack) - 1)]

\* the setback lines moved in by ewt = 0.23 (the trapezoid fields are not read)
_buildable_box(project) ==
    [sx |-> project.setback_left + 230,
     sy |-> project.setback_front + 230,
     ex |-> project.plot_width - project.setback_right - 230,
     ey |-> project.plot_length - project.setback_rear - 230]

\* the point set of shapely's box(x, y, x + w, y + d)
Box(x, y, w, d) ==
    [x0 |-> Min(x, x + w), x1 |-> Max(x, x + w), y0 |-> Min(y, y + d), y1 |-> Max(y, y + d)]

\* a.intersects(b) and not a.touches(b): the interiors meet
InteriorsMeet(a, b) ==
    /\ Min(a.x1, b.x1) > Max(a.x0, b.x0)
    /\ Min(a.y1, b.y1) > Max(a.y0, b.y0)

\* "" when the placement is accepted, the error text otherwise
_check_placement(room_id, x, y, w, d, rooms, project) ==
    LET new_poly == Box(x, y, w, d)
        buildable == _buildable_box(project)
    IN  IF ~(/\ buildable.sx <= new_poly.x0 /\ new_poly.x1 <= buildable.ex
             /\ buildable.sy <= new_poly.y0 /\ new_poly.y1 <= buildable.ey)
        THEN "Extends outside buildable area"
        ELSE IF \E k \in 1..Len(rooms) :
                    /\ rooms[k].id # room_id
                    /\ InteriorsMeet(new_poly, Box(rooms[k].x, rooms[k].y,
                                                   rooms[k].width, rooms[k].depth))
             THEN "Overlaps"
             ELSE ""

FloorKeys == <<"ground_floor", "first_floor", "second_floor", "basement_floor">>

\* the first room with the id, floors in the order of FloorKeys
_find_room_and_floor(state, room_id) ==
    LET hits == {<<f, k>> \in (1..4) \X (1..20) :
                    /\ k <= Len(state[FloorKeys[f]].rooms)
                    /\ state[FloorKeys[f]].rooms[k].id = room_id}
    IN  IF hits = {} THEN [found |-> FALSE, floor_key |-> "", idx |-> 0]
        ELSE LET h == CHOOSE h \in hits :
                          \A g \in hits : h[1] < g[1] \/ (h[1] = g[1] /\ h[2] <= g[2])
             IN  [found |-> TRUE, floor_key |-> FloorKeys[h[1]], idx |-> h[2]]

\* round(w * d, 2), in 0.01 sqm
RoundArea(w, d) == RoundDiv(w * d, 10000)

\* _fp_to_dict: the rooms of a floor plan as a list of dictionaries
_fp_to_dict(rooms) ==
    LET D[k \in 0..Len(rooms)] ==
            IF k = 0 THEN <<>>
            ELSE Append(D[k - 1],
                        [id |-> rooms[k].id, type |-> rooms[k].type, x |-> rooms[k].x,
                         y |-> rooms[k].y, width |-> rooms[k].w, depth |-> rooms[k].d,
                         area |-> Area(rooms[k])])
    IN  MkFloor(D[Len(rooms)])

\* what solve_layouts returns inside the generate call of a session: nothing
SessionSolverResult == <<>>

\* the value cached for a key that is not in _layout_state: the first of the
\* layouts generate(cfg) returned; <<>> when it returned none (HTTP 422)
FreshState(layouts) ==
    IF layouts = <<>> THEN <<>>
    ELSE <<[ground_floor |-> _fp_to_dict(layouts[1].ground_floor),
            first_floor |-> _fp_to_dict(layouts[1].first_floor),
            second_floor |-> NoFloor,
            basement_floor |-> NoFloor]>>

_get_or_init_state(layout_state, layouts) ==
    IF layout_state = <<>> THEN FreshState(layouts) ELSE layout_state

\* the projects of the sessions: 12 x 15 m, setbacks 1.5 m, three bedrooms and one
\* toilet (Layout E is the first layout), two bedrooms and two toilets (Layout D)
SessionProjects ==
    {MkConfig(0, 3, 1, FALSE, FALSE, FALSE, FALSE, FALSE, "S"),
     MkConfig(0, 2, 2, FALSE, FALSE, FALSE, FALSE, FALSE, "S")}

Ok(op) == [op |-> op, status |-> 200, success |-> TRUE, error |-> ""]
Failed(op, err) == [op |-> op, status |-> 200, success |-> FALSE, error |-> err]
Raised(op, status) == [op |-> op, status |-> status, success |-> FALSE, error |-> "HTTPException"]

Outcome(state, stack, resp) == [state |-> state, stack |-> stack, response |-> resp]

\* variant: the snapshot is pushed before the placement is checked
move_room_push_first(state, stack, project, body) ==
    LET f == _find_room_and_floor(state, body.room_id)
    IN  IF ~f.found THEN Outcome(state, stack, Raised("move", 404))
        ELSE LET room == state[f.floor_key].rooms[f.idx]
                 err == _check_placement(body.room_id, body.x, body.y, room.width,
                                         room.depth, state[f.floor_key].rooms, project)
             IN  IF err # "" THEN Outcome(state, _push_undo(stack, state), Failed("move", err))
                 ELSE Outcome([state EXCEPT ![f.floor_key].rooms[f.idx] =
                                   [room EXCEPT !.x = body.x, !.y = body.y]],
                              _push_undo(stack, state), Ok("move"))

move_room(state, stack, project, body) ==
    LET f == _find_room_and_floor(state, body.room_id)
    IN  IF ~f.found THEN Outcome(state, stack, Raised("move", 404))
        ELSE LET room == state[f.floor_key].rooms[f.idx]
                 err == _check_placement(body.room_id, body.x, body.y, room.width,
                                         room.depth, state[f.floor_key].rooms, project)
             IN  IF err # "" THEN Outcome(state, stack, Failed("move", err))
                 ELSE Outcome([state EXCEPT ![f.floor_key].rooms[f.idx] =
                                   [room EXCEPT !.x = body.x, !.y = body.y]],
                              _push_undo(stack, state), Ok("move"))

\* variant: the stored area is left as it was
resize_room_stale_area(state, stack, project, body) ==
    LET f == _find_room_and_floor(state, body.room_id)
    IN  IF ~f.found THEN Outcome(state, stack, Raised("resize", 404))
        ELSE LET room == state[f.floor_key].rooms[f.idx]
                 new_w == IF body.width # 0 THEN body.width ELSE room.width
                 new_d == IF body.depth # 0 THEN body.depth ELSE room.depth
                 err == _check_placement(body.room_id, room.x, room.y, new_w, new_d,
                                         state[f.floor_key].rooms, project)
             IN  IF err # "" THEN Outcome(state, stack, Failed("resize", err))
                 ELSE Outcome([state EXCEPT ![f.floor_key].rooms[f.idx] =
                                   [room EXCEPT !.width = new_w, !.depth = new_d]],
                              _push_undo(stack, state), Ok("resize"))

\* "body.new_width or room['width']": None and 0.0 both keep the old value
resize_room(state, stack, project, body) ==
    LET f == _find_room_and_floor(state, body.room_id)
    IN  IF ~f.found THEN Outcome(state, stack, Raised("resize", 404))
        ELSE LET room == state[f.floor_key].rooms[f.idx]
                 new_w == IF body.width # 0 THEN body.width ELSE room.width
                 new_d == IF body.depth # 0 THEN body.depth ELSE room.depth
                 err == _check_placement(body.room_id, room.x, room.y, new_w, new_d,
                                         state[f.floor_key].rooms, project)
             IN  IF err # "" THEN Outcome(state, stack, Failed("resize", err))
                 ELSE Outcome([state EXCEPT ![f.floor_key].rooms[f.idx] =
                                   [room EXCEPT !.width = new_w, !.depth = new_d,
                                                !.area = RoundArea(new_w, new_d)]],
                              _push_undo(stack, state), Ok("resize"))

\* room_a and room_b are the same dictionary when both ids find the same room
swap_rooms(state, stack, project, body) ==
    LET fa == _find_room_and_floor(state, body.room_id)
        fb == _find_room_and_floor(state, body.room_id_b)
    IN  IF ~fa.found \/ ~fb.found THEN Outcome(state, stack, Raised("swap", 404))
        ELSE IF fa.floor_key # fb.floor_key
        THEN Outcome(state, stack, Failed("swap", "Rooms must be on the same floor to swap"))
        ELSE LET a == state[fa.floor_key].rooms[fa.idx]
                 b == state[fb.floor_key].rooms[fb.idx]
                 a2 == [a EXCEPT !.x = b.x, !.y = b.y, !.width = b.width, !.depth = b.depth,
                                 !.area = RoundArea(b.width, b.depth)]
                 b2 == [b EXCEPT !.x = a.x, !.y = a.y, !.width = a.width, !.depth = a.depth,
                                 !.area = RoundArea(a.width, a.depth)]
             IN  Outcome([state EXCEPT ![fa.floor_key].rooms[fa.idx] = a2,
                                       ![fb.floor_key].rooms[fb.idx] = b2],
                         _push_undo(stack, state), Ok("swap"))

\* the ids of uuid4().hex[:8]: one that no room of the live layout or of a
\* snapshot carries
NewRoomId(state, stack) ==
    LET CustomIds == <<"custom_1", "custom_2", "custom_3", "custom_4", "custom_5", "custom_6">>
        StateIds(st) ==
            UNION {{st[FloorKeys[f]].rooms[k].id : k \in 1..Len(st[FloorKeys[f]].rooms)} :
                   f \in 1..4}
        used == StateIds(state) \cup UNION {StateIds(stack[k]) : k \in 1..Len(stack)}
        free == {n \in 1..Len(CustomIds) : CustomIds[n] \notin used}
    IN  CustomIds[CHOOSE n \in free : \A m \in free : n <= m]

floor_map(floor) ==
    CASE floor = "gf" -> "ground_floor"
      [] floor = "ff" -> "first_floor"
      [] floor = "sf" -> "second_floor"
      [] floor = "basement" -> "basement_floor"
      [] OTHER -> "ground_floor"

\* "body.width or spec['min_width_m'] * 1.5", "body.x or 0.0"
add_room(state, stack, project, body) ==
    LET floor_key == floor_map(body.floor)
        w == IF body.width # 0 THEN body.width
             ELSE (ROOM_SPECS(body.type).min_width * 3) \div 2
        d == IF body.depth # 0 THEN body.depth
             ELSE (ROOM_SPECS(body.type).min_width * 3) \div 2
    IN  IF ~state[floor_key].present
        THEN Outcome(state, stack, Failed("add", "Floor does not exist in this layout"))
        ELSE LET err == _check_placement("__new__", body.x, body.y, w, d,
                                         state[floor_key].rooms, project)
             IN  IF err # "" THEN Outcome(state, stack, Failed("add", err))
                 ELSE Outcome([state EXCEPT ![floor_key].rooms =
                                   Append(@, [id |-> NewRoomId(state, stack),
                                              type |-> body.type, x |-> body.x, y |-> body.y,
                                              width |-> w, depth |-> d,
                                              area |-> RoundArea(w, d)])],
                              _push_undo(stack, state), Ok("add"))

\* every room of the floor with the id is filtered out
delete_room(state, stack, project, body) ==
    LET f == _find_room_and_floor(state, body.room_id)
        Keep(rooms) ==
            LET F[k \in 0..Len(rooms)] ==
                    IF k = 0 THEN <<>>
                    ELSE IF rooms[k].id # body.room_id THEN Append(F[k - 1], rooms[k])
                    ELSE F[k - 1]
            IN  F[Len(rooms)]
    IN  IF ~f.found THEN Outcome(state, stack, Raised("delete", 404))
        ELSE Outcome([state EXCEPT ![f.floor_key].rooms = Keep(@)],
                     _push_undo(stack, state), Ok("delete"))

\* undo_last works on the dictionaries themselves: no _get_or_init_state
undo_last(layout_state, stack) ==
    IF stack = <<>>
    THEN Outcome(layout_state, stack, Failed("undo", "Nothing to undo"))
    ELSE Outcome(<<_pop_undo(stack).prev>>, _pop_undo(stack).stack, Ok("undo"))

(***************************************************************************)
(* One session served request by request                                   *)
(***************************************************************************)
MaxScriptLen == 3
MaxLongRun == 12

Body(op, room_id, room_id_b, x, y, width, depth, floor, type) ==
    [op |-> op, room_id |-> room_id, room_id_b |-> room_id_b, x |-> x, y |-> y,
     width |-> width, depth |-> depth, floor |-> floor, type |-> type]

MoveRequest(room_id, x, y) == Body("move", room_id, "", x, y, 0, 0, "", "")
ResizeRequest(room_id, new_width, new_depth) ==
    Body("resize", room_id, "", 0, 0, new_width, new_depth, "", "")
SwapRequest(room_id_a, room_id_b) == Body("swap", room_id_a, room_id_b, 0, 0, 0, 0, "", "")
AddRoomRequest(floor, type, x, y, width, depth) ==
    Body("add", "", "", x, y, width, depth, floor, type)
DeleteRequest(room_id) == Body("delete", room_id, "", 0, 0, 0, 0, "", "")
UndoRequest == Body("undo", "", "", 0, 0, 0, 0, "", "")

\* the requests a client sends
Requests ==
    {ResizeRequest("ff_bed_3", 0, 3000),
     MoveRequest("ff_bed_3", 1730, 9345),
     ResizeRequest("ff_bed_1", 0, 3000),
     ResizeRequest("ff_bed_1", 5000, 0),
     MoveRequest("ff_bed_1", 1730, 9345),
     SwapRequest("ff_bed_1", "ff_bed_2"),
     SwapRequest("ff_bed_1", "gf_kitchen"),
     AddRoomRequest("ff", "store_room", 1730, 4800, 2000, 1200),
     AddRoomRequest("sf", "bedroom", 0, 0, 0, 0),
     DeleteRequest("ff_bed_2"),
     UndoRequest}

\* what a client sends in a session: every sequence of up to MaxScriptLen
\* requests, and n mutations that always succeed followed by m undos
Scripts ==
    LET ScriptsUpTo(n) == UNION {[1..k -> Requests] : k \in 0..n}
        LongRun(n, m) ==
            [k \in 1..(n + m) |->
                IF k > n THEN UndoRequest
                ELSE IF k % 2 = 1 THEN SwapRequest("ff_bed_1", "ff_bed_2")
                ELSE ResizeRequest("ff_bed_1", 0, 3000 + 100 * (k % 4))]
    IN  ScriptsUpTo(MaxScriptLen)
          \cup {LongRun(n, m) : n \in 0..MaxLongRun, m \in 0..(MaxLongRun + 1)}

EngineIdle ==
    /\ pc = "session"
    /\ solver_layouts = <<>>
    /\ solver_raised = FALSE
    /\ fn_idx = 1
    /\ produced = <<>>
    /\ archetype_layouts = <<>>
    /\ all_layouts = <<>>
    /\ top_n = 3
    /\ run_idx = 1
    /\ run_log = <<>>

\* result holds what generate(cfg) returns for the project of the session
InitRooms ==
    /\ cfg \in SessionProjects
    /\ EngineIdle
    /\ result = generate(cfg, SessionSolverResult)
    /\ _layout_state = <<>>
    /\ _undo_stacks = <<>>
    /\ requests \in Scripts
    /\ response = NoResponse
    /\ tasks = <<>>
    /\ history = <<>>

\* the handler of a request, from the line after "await _get_or_init_state" on
Dispatch(body, state, stack, project) ==
    CASE body.op = "move" -> move_room(state, stack, project, body)
      [] body.op = "resize" -> resize_room(state, stack, project, body)
      [] body.op = "swap" -> swap_rooms(state, stack, project, body)
      [] body.op = "add" -> add_room(state, stack, project, body)
      [] OTHER -> delete_room(state, stack, project, body)

\* a handler that starts with "state = await _get_or_init_state(...)", served
\* without another request in between; history records what the client was told
Serve(op) ==
    /\ pc = "session"
    /\ requests # <<>>
    /\ Head(requests).op = op
    /\ LET cached == _get_or_init_state(_layout_state, result)
       IN  IF cached = <<>>
           THEN /\ response' = Raised(op, 422)
                /\ UNCHANGED <<_layout_state, _undo_stacks, history>>
           ELSE LET out == Dispatch(Head(requests), cached[1], _undo_stacks, cfg)
                IN  /\ _layout_state' = <<out.state>>
                    /\ _undo_stacks' = out.stack
                    /\ response' = out.response
                    /\ history' = IF out.response.success
                                  THEN Append(history, cached[1]) ELSE history
    /\ requests' = Tail(requests)
    /\ UNCHANGED <<cfg, tasks>>
    /\ UNCHANGED engine_vars

MoveRoom == Serve("move")

ResizeRoom == Serve("resize")

SwapRooms == Serve("swap")

AddRoom == Serve("add")

DeleteRoom == Serve("delete")

UndoLast ==
    /\ pc = "session"
    /\ requests # <<>>
    /\ Head(requests).op = "undo"
    /\ LET out == undo_last(_layout_state, _undo_stacks)
       IN  /\ _layout_state' = out.state
           /\ _undo_stacks' = out.stack
           /\ response' = out.response
           /\ history' = IF out.response.success
                         THEN SubSeq(history, 1, Len(history) - 1) ELSE history
    /\ requests' = Tail(requests)
    /\ UNCHANGED <<cfg, tasks>>
    /\ UNCHANGED engine_vars

NextRooms == MoveRoom \/ ResizeRoom \/ SwapRooms \/ AddRoom \/ DeleteRoom \/ UndoLast

SpecRooms == InitRooms /\ [][NextRooms]_vars

(***************************************************************************)
(* Two requests of one session key running concurrently                    *)
(***************************************************************************)
InitRace ==
    /\ cfg \in SessionProjects
    /\ EngineIdle
    /\ result = generate(cfg, SessionSolverResult)
    /\ _layout_state \in {<<>>, FreshState(result)}
    /\ _undo_stacks = <<>>
    /\ requests = <<>>
    /\ response = NoResponse
    /\ LET Task(body) == [body |-> body, at |-> "start", initialised |-> FALSE,
                          response |-> NoResponse]
       IN  tasks \in {<<Task(a), Task(b)>> : a \in Requests, b \in Requests}
    /\ history = <<>>

\* the rest of a handler once it holds the state dictionary: no await is left,
\* so it runs to its return without another request in between
Finish(i, state) ==
    LET out == Dispatch(tasks[i].body, state, _undo_stacks, cfg)
    IN  /\ _layout_state' = <<out.state>>
        /\ _undo_stacks' = out.stack
        /\ response' = out.response
        /\ history' = IF out.response.success THEN Append(history, state) ELSE history
        /\ tasks' = [tasks EXCEPT ![i].at = "done", ![i].response = out.response]

\* a request runs up to its next await: undo_last to its end; the other handlers
\* to their end when the key is in _layout_state, and up to
\* "project = await _get_project(...)" inside _get_or_init_state when it is not
EnterHandler(i) ==
    /\ pc = "session"
    /\ tasks[i].at = "start"
    /\ IF tasks[i].body.op = "undo"
       THEN LET out == undo_last(_layout_state, _undo_stacks)
            IN  /\ _layout_state' = out.state
                /\ _undo_stacks' = out.stack
                /\ response' = out.response
                /\ history' = IF out.response.success
                              THEN SubSeq(history, 1, Len(history) - 1) ELSE history
                /\ tasks' = [tasks EXCEPT ![i].at = "done", ![i].response = out.response]
       ELSE IF _layout_state # <<>>
       THEN Finish(i, _layout_state[1])
       ELSE /\ tasks' = [tasks EXCEPT ![i].at = "init"]
            /\ UNCHANGED <<_layout_state, _undo_stacks, response, history>>
    /\ UNCHANGED <<cfg, requests>>
    /\ UNCHANGED engine_vars

\* _get_project has returned: "_layout_state[key] = {...}" is assigned whatever the
\* dictionary holds by now, and the handler goes on with the new value
ResumeInit(i) ==
    /\ pc = "session"
    /\ tasks[i].at = "init"
    /\ IF FreshState(result) = <<>>
       THEN /\ response' = Raised(tasks[i].body.op, 422)
            /\ tasks' = [tasks EXCEPT ![i].at = "done",
                                      ![i].response = Raised(tasks[i].body.op, 422)]
            /\ UNCHANGED <<_layout_state, _undo_stacks, history>>
       ELSE LET out == Dispatch(tasks[i].body, FreshState(result)[1], _undo_stacks, cfg)
            IN  /\ _layout_state' = <<out.state>>
                /\ _undo_stacks' = out.stack
                /\ response' = out.response
                /\ history' = IF out.response.success
                              THEN Append(history, FreshState(result)[1]) ELSE history
                /\ tasks' = [tasks EXCEPT ![i].at = "done", ![i].initialised = TRUE,
                                          ![i].response = out.response]
    /\ UNCHANGED <<cfg, requests>>
    /\ UNCHANGED engine_vars

NextRace ==
    \/ \E i \in 1..Len(tasks) : EnterHandler(i)
    \/ \E i \in 1..Len(tasks) : ResumeInit(i)

SpecRace == InitRace /\ [][NextRace]_vars

(***************************************************************************)
(* C22 .. C27: room operations and the undo stack                          *)
(***************************************************************************)
IsSuffix(s, t) ==
    /\ Len(s) <= Len(t)
    /\ s = SubSeq(t, Len(t) - Len(s) + 1, Len(t))

\* the layout of the session as a client sees it: the cached one, or the first
\* generated layout while nothing is cached
Shown(layout_state) == IF layout_state = <<>> THEN FreshState(result) ELSE layout_state

\* a request of the script has just been served
Served(op) == requests # <<>> /\ Head(requests).op = op /\ requests' = Tail(requests)

\* C22: the undo stack of a session never holds more than 10 snapshots, and what
\* it holds are the newest of the layouts before the acknowledged mutations not
\* yet undone: a push onto a full stack drops the oldest one.
C22_UndoStackCapped ==
    /\ Len(_undo_stacks) <= 10
    /\ IsSuffix(_undo_stacks, history)

\* an eleventh snapshot has been pushed onto a full stack
C22_Witness ==
    /\ Len(history) > 10
    /\ Len(_undo_stacks) = 10
    /\ response.success
    /\ response.op # "undo"

AreasMatch(state) ==
    \A f \in 1..4 : \A k \in 1..Len(state[FloorKeys[f]].rooms) :
        LET room == state[FloorKeys[f]].rooms[k]
        IN  room.area = RoundDiv(room.width * room.depth, 10000)

\* C23: the stored area of every room of the session's layout, and of every
\* snapshot, equals round(width * depth, 2) after any sequence of move, resize,
\* swap, add, delete and undo.
C23_StoredAreaIsProduct ==
    /\ _layout_state # <<>> => AreasMatch(_layout_state[1])
    /\ \A k \in 1..Len(_undo_stacks) : AreasMatch(_undo_stacks[k])

\* a resize to a depth of 3 m has been applied
C23_Witness ==
    /\ response = Ok("resize")
    /\ \E k \in 1..Len(_layout_state[1].first_floor.rooms) :
          /\ _layout_state[1].first_floor.rooms[k].depth = 3000
          /\ _layout_state[1].first_floor.rooms[k].area
                 # FreshState(result)[1].first_floor.rooms[k].area

\* every room inside the buildable box, no two rooms of a floor overlapping
PlacementOk(state, project) ==
    \A f \in 1..4 :
        LET rooms == state[FloorKeys[f]].rooms
            B(k) == Box(rooms[k].x, rooms[k].y, rooms[k].width, rooms[k].depth)
        IN  /\ \A k \in 1..Len(rooms) :
                  /\ _buildable_box(project).sx <= B(k).x0
                  /\ B(k).x1 <= _buildable_box(project).ex
                  /\ _buildable_box(project).sy <= B(k).y0
                  /\ B(k).y1 <= _buildable_box(project).ey
            /\ \A k, j \in 1..Len(rooms) : k # j => ~InteriorsMeet(B(k), B(j))

\* C24: when every room of the initial layout lies inside the buildable box and no
\* two rooms of a floor overlap, the same holds after any sequence of move,
\* resize, add, swap, delete and undo.
C24_PlacementPreserved ==
    (_layout_state # <<>> /\ PlacementOk(FreshState(result)[1], cfg))
        => PlacementOk(_layout_state[1], cfg)

\* the same for sessions whose initial layout has pairwise distinct room ids
C24_PreservedWithDistinctIds ==
    (/\ _layout_state # <<>>
     /\ PlacementOk(FreshState(result)[1], cfg)
     /\ \A f \in 1..4 :
            LET rooms == FreshState(result)[1][FloorKeys[f]].rooms
            IN  \A k, j \in 1..Len(rooms) : k # j => rooms[k].id # rooms[j].id)
        => PlacementOk(_layout_state[1], cfg)

\* C25: undo puts the live layout back to the layout before the most recent
\* acknowledged mutation not yet undone and removes that snapshot from the stack;
\* with an empty stack it answers success = false, "Nothing to undo", and changes
\* neither the layout nor the stack.
C25_UndoIsLifo ==
    [][Served("undo") =>
          IF _undo_stacks = <<>>
          THEN /\ response' = Failed("undo", "Nothing to undo")
               /\ UNCHANGED <<_layout_state, _undo_stacks>>
          ELSE /\ response' = Ok("undo")
               /\ _layout_state' = <<history[Len(history)]>>
               /\ _undo_stacks' = SubSeq(_undo_stacks, 1, Len(_undo_stacks) - 1)]_vars

\* n mutations followed by n undos, n <= 10: the layout is the initial one again
C25_AllUndoneIsInitial ==
    (history = <<>> /\ _layout_state # <<>>) => _layout_state = FreshState(result)

\* an undo went back to a layout that is not the initial one
C25_Witness ==
    /\ response = Ok("undo")
    /\ history # <<>>
    /\ _layout_state # FreshState(result)

\* ten mutations have been undone by ten undos
C25_WitnessTen ==
    /\ response = Ok("undo")
    /\ history = <<>>
    /\ requests = <<>>
    /\ _layout_state = FreshState(result)

C26_FailuresAnswered ==
    [][/\ Served("add") /\ Head(requests).floor = "sf" => response'.status = 200 /\ ~response'.success
       /\ Served("swap") /\ Head(requests).room_id_b = "gf_kitchen"
              => response'.status = 200 /\ ~response'.success]_vars

Names(body, room_id) == body.room_id = room_id \/ body.room_id_b = room_id

\* what an acknowledged move or resize of a room left in the live layout
Present(body, state) ==
    LET f == _find_room_and_floor(state, body.room_id)
    IN  /\ f.found
        /\ LET room == state[f.floor_key].rooms[f.idx]
           IN  /\ body.op = "move" => room.x = body.x /\ room.y = body.y
               /\ (body.op = "resize" /\ body.width # 0) => room.width = body.width
               /\ (body.op = "resize" /\ body.depth # 0) => room.depth = body.depth

\* C27: when two requests of one session run concurrently, a move or resize that
\* was acknowledged with success = true is in the live layout once both have
\* returned, unless the other request names the same room, deletes or undoes.
C27_AcknowledgedMutationKept ==
    \A i, j \in 1..Len(tasks) :
        (/\ i # j
         /\ tasks[i].at = "done"
         /\ tasks[j].at = "done"
         /\ tasks[i].body.op \in {"move", "resize"}
         /\ tasks[i].response = Ok(tasks[i].body.op)
         /\ tasks[j].body.op \in {"move", "resize", "add"}
         /\ ~Names(tasks[j].body, tasks[i].body.room_id))
            => Present(tasks[i].body, _layout_state[1])

\* the same when at most one of the two requests initialised the session
C27_KeptWithOneInitialisation ==
    (\E i \in 1..Len(tasks) : ~tasks[i].initialised) => C27_AcknowledgedMutationKept

=============================================================================
